---- MODULE Spec2Model ----
(***************************************************************************)
(* Workflow execution engine of melted-adw: WorkflowExecutor::execute with *)
(* its retry loop and timeout wrapper (engine/executor.rs), the            *)
(* ExecutionContext it owns (engine/context.rs) and the result model       *)
(* (engine/result.rs).                                                     *)
(***************************************************************************)
EXTENDS Integers, Sequences, FiniteSets, TLC

VARIABLES workflow, initial_input, overflow_checks,
          pc, index, attempt, last_error, current_input,
          context, step_results, now, start_time, step_start,
          calls, outcome, other, config, returned

vars == <<workflow, initial_input, overflow_checks,
          pc, index, attempt, last_error, current_input,
          context, step_results, now, start_time, step_start,
          calls, outcome, other, config, returned>>

-----------------------------------------------------------------------------
(* Bounds of the model.                                                    *)

\* most backend calls a workflow enumerated can make: the sum over its steps of
\* retry budget + 1
MaxCalls == 3
\* the clock value (seconds) up to which time is let pass while a backend call
\* is awaited; timers and backoff sleeps advance the clock beyond it
MaxClock == 2
\* most outputs recorded on a free-standing execution context
MaxRecords == 2
\* most backend calls of a workflow that is executed twice on one executor
MaxRunCalls == 2
\* most steps of a raw workflow definition
MaxDtoSteps == 2
\* most Step Results of a WorkflowResult built by hand
MaxResultSteps == 3

-----------------------------------------------------------------------------
(* Option<T>                                                               *)

None == [some |-> FALSE]
Some(x) == [some |-> TRUE, val |-> x]
UnwrapOr(o, d) == IF o.some THEN o.val ELSE d

-----------------------------------------------------------------------------
(* u32 arithmetic.  A number is <<hi, lo>> with value hi * Limb + lo and   *)
(* 0 <= lo < Limb; it is a u32 iff hi < Limb.                              *)

Limb == 65536
Zero == <<0, 0>>
AddExact(a, b) ==
    <<a[1] + b[1] + ((a[2] + b[2]) \div Limb), (a[2] + b[2]) % Limb>>
FitsU32(x) == x[1] < Limb
WrapU32(x) == <<x[1] % Limb, x[2]>>

\* `a + b` on u32: with overflow checks (debug profile) an overflowing
\* addition panics, without them (release profile) it wraps modulo 2^32.
U32Add(a, b, checks) ==
    LET s == AddExact(a, b)
    IN  IF FitsU32(s) THEN [panic |-> FALSE, val |-> s]
        ELSE IF checks THEN [panic |-> TRUE]
        ELSE [panic |-> FALSE, val |-> WrapU32(s)]

\* TokenUsage::total
Total(usage, checks) == U32Add(usage.input_tokens, usage.output_tokens, checks)

RECURSIVE SumNat(_)
SumNat(s) == IF s = <<>> THEN 0 ELSE s[1] + SumNat(Tail(s))

-----------------------------------------------------------------------------
(* ExecutionContext                                                        *)

\* ExecutionContext::new
NewContext(workflow_name, t) ==
    [workflow_name     |-> workflow_name,
     start_time        |-> t,
     steps_executed    |-> <<>>,
     current_step      |-> None,
     step_outputs      |-> <<>>,
     total_tokens_used |-> Zero,
     execution_times   |-> <<>>,
     retry_counts      |-> [n \in {} |-> 0]]

\* variant: a step enters the history when it starts
start_step_history(ctx, step_name) ==
    [ctx EXCEPT !.current_step = Some(step_name),
                !.steps_executed = Append(@, step_name)]

\* ExecutionContext::start_step
start_step(ctx, step_name) == [ctx EXCEPT !.current_step = Some(step_name)]

\* StepOutput::new
StepOutput(step_name, content, token_usage, execution_time) ==
    [step_name      |-> step_name,
     content        |-> content,
     token_usage    |-> token_usage,
     execution_time |-> execution_time]

\* the counter after `self.total_tokens_used += output.token_usage.total()`
AccumulateTokens(total_tokens_used, usage, checks) ==
    LET t == Total(usage, checks)
    IN  IF t.panic THEN t ELSE U32Add(total_tokens_used, t.val, checks)

\* variant: the duration list keeps only the latest duration
record_step_result_one_time(ctx, output, checks) ==
    LET acc == AccumulateTokens(ctx.total_tokens_used, output.token_usage, checks)
    IN  IF acc.panic THEN [panic |-> TRUE]
        ELSE [panic |-> FALSE,
              ctx   |-> [ctx EXCEPT
                           !.total_tokens_used = acc.val,
                           !.execution_times   = <<output.execution_time>>,
                           !.steps_executed    = Append(@, output.step_name),
                           !.step_outputs      = Append(@, output),
                           !.current_step      = None]]

\* variant: an output recorded under a name that has one takes its place
record_step_result_overwrite(ctx, output, checks) ==
    LET acc  == AccumulateTokens(ctx.total_tokens_used, output.token_usage, checks)
        hits == {i \in 1..Len(ctx.step_outputs) :
                    ctx.step_outputs[i].step_name = output.step_name}
    IN  IF acc.panic THEN [panic |-> TRUE]
        ELSE [panic |-> FALSE,
              ctx   |-> [ctx EXCEPT
                           !.total_tokens_used = acc.val,
                           !.execution_times   = Append(@, output.execution_time),
                           !.steps_executed    = Append(@, output.step_name),
                           !.step_outputs      =
                               IF hits = {} THEN Append(@, output)
                               ELSE [i \in DOMAIN @ |-> IF i \in hits THEN output ELSE @[i]],
                           !.current_step      = None]]

\* ExecutionContext::record_step_result: the context after the call, or a panic
\* raised by the first statement before anything is stored.
record_step_result(ctx, output, checks) ==
    LET acc == AccumulateTokens(ctx.total_tokens_used, output.token_usage, checks)
    IN  IF acc.panic THEN [panic |-> TRUE]
        ELSE [panic |-> FALSE,
              ctx   |-> [ctx EXCEPT
                           !.total_tokens_used = acc.val,
                           !.execution_times   = Append(@, output.execution_time),
                           !.steps_executed    = Append(@, output.step_name),
                           !.step_outputs      = Append(@, output),
                           !.current_step      = None]]

\* variant: the first output recorded is returned
get_last_output_first(ctx) ==
    IF ctx.step_outputs = <<>> THEN None ELSE Some(ctx.step_outputs[1])

\* ExecutionContext::get_last_output
get_last_output(ctx) ==
    IF ctx.step_outputs = <<>> THEN None
    ELSE Some(ctx.step_outputs[Len(ctx.step_outputs)])

\* ExecutionContext::get_step_output: the first output stored under the name
get_step_output(ctx, step_name) ==
    LET hits == {i \in 1..Len(ctx.step_outputs) :
                    ctx.step_outputs[i].step_name = step_name}
    IN  IF hits = {} THEN None
        ELSE Some(ctx.step_outputs[CHOOSE i \in hits : \A j \in hits : i <= j])

\* variant: the counters of all steps retried so far go up together
increment_retry_all(ctx, step_name) ==
    [ctx EXCEPT !.retry_counts =
        [n \in DOMAIN @ \cup {step_name} |->
            (IF n \in DOMAIN @ THEN @[n] ELSE 0) + 1]]

\* variant: a retry adds two to the counter of the step
increment_retry_twice(ctx, step_name) ==
    [ctx EXCEPT !.retry_counts =
        [n \in DOMAIN @ \cup {step_name} |->
            IF n = step_name
            THEN (IF n \in DOMAIN @ THEN @[n] ELSE 0) + 2
            ELSE @[n]]]

\* ExecutionContext::increment_retry
increment_retry(ctx, step_name) ==
    [ctx EXCEPT !.retry_counts =
        [n \in DOMAIN @ \cup {step_name} |->
            IF n = step_name
            THEN (IF n \in DOMAIN @ THEN @[n] ELSE 0) + 1
            ELSE @[n]]]

\* ExecutionContext::get_retry_count
get_retry_count(ctx, step_name) ==
    IF step_name \in DOMAIN ctx.retry_counts THEN ctx.retry_counts[step_name] ELSE 0

\* ExecutionContext::total_tokens
total_tokens(ctx) == ctx.total_tokens_used

\* ExecutionContext::total_duration
total_duration(ctx) == SumNat(ctx.execution_times)

-----------------------------------------------------------------------------
(* Result model (engine/result.rs)                                         *)

\* ExecutionStatus
ExecutionStatus ==
    {[variant |-> "Success"], [variant |-> "Failed"]}
    \cup {[variant |-> "PartialSuccess", completed |-> c, total |-> t] :
            c \in 0..MaxCalls, t \in 0..MaxCalls}

\* StepStatus
StepStatus ==
    {[variant |-> "Success"], [variant |-> "Failed"], [variant |-> "Skipped"]}
    \cup {[variant |-> "Retried", attempts |-> a] : a \in 0..MaxCalls}

\* variant: the backend's error is replaced by a generic one
ProviderError_generic(e) == [variant |-> "ProviderError", source |-> "CliExecutionError"]

\* ExecutionError::ProviderError(e)
ProviderError(e) == [variant |-> "ProviderError", source |-> e]

\* variant: the timeout error carries no threshold
TimeoutError_no_secs(step_name, timeout_secs) ==
    [variant |-> "TimeoutError", step_name |-> step_name, timeout_secs |-> 0]

\* ExecutionError::TimeoutError { step_name, timeout_secs }
TimeoutError(step_name, timeout_secs) ==
    [variant |-> "TimeoutError", step_name |-> step_name, timeout_secs |-> timeout_secs]

-----------------------------------------------------------------------------
(* Inputs: validated workflows and backend behaviour                       *)

\* variant: a definition with a repeated step name is accepted
StepNames_repeated == <<"A", "A", "C", "D", "E">>

\* step names are pairwise distinct (Workflow::try_from rejects duplicates)
StepNames == <<"A", "B", "C", "D", "E">>
Providers == <<"Anthropic", "OpenAI", "Anthropic", "OpenAI", "Anthropic">>

\* the timeouts a step is given
Timeouts == {None, Some(1)}
\* the retry counts a step is given
RetryCounts == {None} \cup {Some(r) : r \in 1..(MaxCalls - 1)}

\* WorkflowStep (system prompt and model tier are passed through to the backend
\* untouched and are left out)
WorkflowStep(i, timeout, retry_count) ==
    [name        |-> StepNames[i],
     provider    |-> Providers[i],
     timeout     |-> timeout,
     retry_count |-> retry_count]

\* variant: an unset retry count defaults to one retry
max_retries_one(step) == UnwrapOr(step.retry_count, 1)

\* `step.retry_count().unwrap_or(0)`
max_retries(step) == UnwrapOr(step.retry_count, 0)

\* the backend calls a workflow makes at most
RECURSIVE TotalCalls(_)
TotalCalls(cfg) ==
    IF cfg = <<>> THEN 0 ELSE UnwrapOr(cfg[1][2], 0) + 1 + TotalCalls(Tail(cfg))

\* the validated workflows that make at most k backend calls: at least one step
WorkflowsUpTo(k) ==
    {[name  |-> "wf",
      steps |-> [i \in DOMAIN cfg |-> WorkflowStep(i, cfg[i][1], cfg[i][2])]] :
        cfg \in {c \in UNION {[1..n -> Timeouts \X RetryCounts] : n \in 1..k} :
                    TotalCalls(c) <= k}}

\* the validated workflows enumerated
Workflows == WorkflowsUpTo(MaxCalls)

InitialInputs == {None, Some("task")}

\* the text a CLI run generates
Contents == {"", "out-A"}
TokenUsages ==
    {[input_tokens |-> <<0, 100>>, output_tokens |-> <<0, 50>>],
     [input_tokens |-> <<65535, 65535>>, output_tokens |-> <<0, 0>>]}
\* the errors a CLI run that fails ends in, whichever the client: the CLI tool
\* is not installed, or it reports that a login is needed
ProviderErrors == {"CliNotFound", "AuthenticationError"}
\* the error only the Codex client reports: its stderr speaks of a timeout
\* (OpenAIClient::detect_error_from_stderr)
CodexErrors == {"Timeout"}

\* ProviderResponse (stop reason and model name are never read by the engine)
ProviderResponse(content, token_usage) ==
    [content |-> content, token_usage |-> token_usage]

\* AnthropicClient::execute on a CLI run that exited with success: the
\* `response` field of the CLI's JSON becomes the content as it is
AnthropicExecute(text, token_usage) ==
    [ok |-> TRUE, response |-> ProviderResponse(text, token_usage)]

\* OpenAIClient::parse_jsonl_output on the events of a CLI run that exited with
\* success: the concatenated text items become the content; no text is an error
parse_jsonl_output(text, token_usage) ==
    IF text = ""
    THEN [ok |-> FALSE, error |-> "InvalidResponse"]
    ELSE [ok |-> TRUE, response |-> ProviderResponse(text, token_usage)]

\* create_provider(provider).execute(..) on a CLI run that exited with success
ClientExecute(provider, text, token_usage) ==
    IF provider = "Anthropic"
    THEN AnthropicExecute(text, token_usage)
    ELSE parse_jsonl_output(text, token_usage)

\* what a backend call of the provider can return
ClientResults(provider) ==
    {ClientExecute(provider, text, usage) : text \in Contents, usage \in TokenUsages}
    \cup {[ok |-> FALSE, error |-> e] :
            e \in ProviderErrors \cup (IF provider = "OpenAI" THEN CodexErrors ELSE {})}

-----------------------------------------------------------------------------
(* WorkflowExecutor (engine/executor.rs)                                   *)

\* fixed wait between attempts
BackoffSecs == 1

\* `self.initial_input.clone().unwrap_or_default()`
InitialInput(opt) == UnwrapOr(opt, "")

\* `end.duration_since(start).unwrap_or(Duration::from_secs(0))`
DurationSince(end, start) == IF end >= start THEN end - start ELSE 0

\* the step of the current loop iteration (index is 0-based)
CurrentStep == workflow.steps[index + 1]

\* variant: the index of a Step Result is 1-based
StepResult_one_based(step, step_index, response, duration) ==
    [step_name   |-> step.name,
     index       |-> step_index + 1,
     status      |-> [variant |-> "Success"],
     output      |-> Some(response.content),
     token_usage |-> response.token_usage,
     duration    |-> duration,
     retry_count |-> 0,
     error       |-> None]

\* variant: the Step Result of a successful step carries no output text
StepResult_no_output(step, step_index, response, duration) ==
    [step_name   |-> step.name,
     index       |-> step_index,
     status      |-> [variant |-> "Success"],
     output      |-> None,
     token_usage |-> response.token_usage,
     duration    |-> duration,
     retry_count |-> 0,
     error       |-> None]

\* the StepResult built at the end of execute_step
StepResult(step, step_index, response, duration) ==
    [step_name   |-> step.name,
     index       |-> step_index,
     status      |-> [variant |-> "Success"],
     output      |-> Some(response.content),
     token_usage |-> response.token_usage,
     duration    |-> duration,
     retry_count |-> 0,
     error       |-> None]

\* variant: the retried status is set but retry_count is left at 0
MarkRetried_status_only(result, att) ==
    IF att > 0
    THEN [result EXCEPT !.status = [variant |-> "Retried", attempts |-> att]]
    ELSE result

\* the Ok arm of execute_step_with_retry
MarkRetried(result, att) ==
    IF att > 0
    THEN [result EXCEPT !.status = [variant |-> "Retried", attempts |-> att],
                        !.retry_count = att]
    ELSE result

\* variant: the output of a step is not handed on
NextInput_keep(input, step_result) == input

\* `if let Some(output) = &step_result.output { current_input = output.clone(); }`
NextInput(input, step_result) ==
    IF step_result.output.some THEN step_result.output.val ELSE input

\* variant: the engine sleeps after the last permitted attempt as well
RetryRemains_always(att, step) == att <= max_retries(step)

\* `if attempt < max_retries { sleep }`: another attempt follows
RetryRemains(att, step) == att < max_retries(step)

\* the WorkflowResult assembled at the end of execute
WorkflowResult(end_time) ==
    [workflow_name     |-> workflow.name,
     status            |-> [variant |-> "Success"],
     steps             |-> step_results,
     start_time        |-> start_time,
     end_time          |-> end_time,
     total_duration    |-> DurationSince(end_time, start_time),
     total_tokens_used |-> total_tokens(context),
     error             |-> None]

\* the record of one backend invocation, kept on the backend's side
BackendCall(step_index, att, user_input) ==
    [step |-> step_index, attempt |-> att, user_input |-> user_input,
     result |-> [kind |-> "Pending"]]

Resolve(log, result) == [log EXCEPT ![Len(log)].result = result]

Elapsed == now - step_start

\* variant: the backend call is awaited without a timer whatever the step says
TimerArmed_never(step) == FALSE

\* `if let Some(timeout_secs) = step.timeout()`: the call is wrapped in
\* tokio::time::timeout
TimerArmed(step) == step.timeout.some

\* the backend call awaited has neither completed nor been given up
CallPending == calls[Len(calls)].result.kind = "Pending"

\* no raw definition is being converted
NoConfig == [dto |-> None, result |-> None, back |-> None]

\* what one call of execute holds in its own frame: its locals, the context
\* it created, and (for the properties) the log of its backend calls
ThisRun ==
    [pc            |-> pc,
     index         |-> index,
     attempt       |-> attempt,
     last_error    |-> last_error,
     current_input |-> current_input,
     context       |-> context,
     step_results  |-> step_results,
     start_time    |-> start_time,
     step_start    |-> step_start,
     calls         |-> calls,
     outcome       |-> outcome]

\* a call of execute that has not begun
IdleRun(wf) ==
    [pc            |-> "idle",
     index         |-> 0,
     attempt       |-> 0,
     last_error    |-> None,
     current_input |-> "",
     context       |-> NewContext(wf.name, 0),
     step_results  |-> <<>>,
     start_time    |-> 0,
     step_start    |-> 0,
     calls         |-> <<>>,
     outcome       |-> [kind |-> "None"]]

Init ==
    /\ workflow \in Workflows
    /\ initial_input \in InitialInputs
    /\ overflow_checks \in BOOLEAN
    /\ pc = "idle"
    /\ index = 0
    /\ attempt = 0
    /\ last_error = None
    /\ current_input = ""
    /\ context = NewContext(workflow.name, 0)
    /\ step_results = <<>>
    /\ now = 0
    /\ start_time = 0
    /\ step_start = 0
    /\ calls = <<>>
    /\ outcome = [kind |-> "None"]
    /\ other = IdleRun(workflow)
    /\ config = NoConfig
    /\ returned = None

\* variant: the context is kept from one call of execute to the next
Execute_keep_context ==
    /\ pc = "idle"
    /\ context' = context
    /\ step_results' = <<>>
    /\ start_time' = now
    /\ current_input' = InitialInput(initial_input)
    /\ index' = 0
    /\ pc' = "loop"
    /\ UNCHANGED <<workflow, initial_input, overflow_checks, other, config, returned, attempt, last_error,
                   now, step_start, calls, outcome>>

\* execute, up to the loop over the steps
Execute ==
    /\ pc = "idle"
    /\ context' = NewContext(workflow.name, now)
    /\ step_results' = <<>>
    /\ start_time' = now
    /\ current_input' = InitialInput(initial_input)
    /\ index' = 0
    /\ pc' = "loop"
    /\ UNCHANGED <<workflow, initial_input, overflow_checks, other, config, returned, attempt, last_error,
                   now, step_start, calls, outcome>>

\* one iteration of the loop begins: start_step, then execute_step_with_retry
\* is entered
StartStep ==
    /\ pc = "loop"
    /\ index < Len(workflow.steps)
    /\ context' = start_step(context, CurrentStep.name)
    /\ attempt' = 0
    /\ last_error' = None
    /\ pc' = "attempt"
    /\ UNCHANGED <<workflow, initial_input, overflow_checks, other, config, returned, index, current_input,
                   step_results, now, start_time, step_start, calls, outcome>>

\* variant: the retry counter goes up on every attempt, the first included
BeginAttempt_count_all ==
    /\ pc = "attempt"
    /\ context' = increment_retry(context, CurrentStep.name)
    /\ step_start' = now
    /\ calls' = Append(calls, BackendCall(index, attempt, current_input))
    /\ pc' = "await"
    /\ UNCHANGED <<workflow, initial_input, overflow_checks, other, config, returned, index, attempt,
                   last_error, current_input, step_results, now, start_time, outcome>>

\* variant: the attempts of a step are launched together and only the last
\* is awaited
BeginAttempt_overlap ==
    /\ pc = "attempt"
    /\ context' = IF attempt > 0
                  THEN increment_retry(context, CurrentStep.name)
                  ELSE context
    /\ step_start' = now
    /\ calls' = Append(calls, BackendCall(index, attempt, current_input))
    /\ IF RetryRemains(attempt, CurrentStep)
       THEN pc' = "attempt" /\ attempt' = attempt + 1
       ELSE pc' = "await" /\ attempt' = attempt
    /\ UNCHANGED <<workflow, initial_input, overflow_checks, other, config, returned, index,
                   last_error, current_input, step_results, now, start_time, outcome>>

\* variant: the step's clock is started at its first attempt only
BeginAttempt_first_start ==
    /\ pc = "attempt"
    /\ context' = IF attempt > 0
                  THEN increment_retry(context, CurrentStep.name)
                  ELSE context
    /\ step_start' = IF attempt = 0 THEN now ELSE step_start
    /\ calls' = Append(calls, BackendCall(index, attempt, current_input))
    /\ pc' = "await"
    /\ UNCHANGED <<workflow, initial_input, overflow_checks, other, config, returned, index, attempt,
                   last_error, current_input, step_results, now, start_time, outcome>>

\* one iteration of the retry loop up to the await of the backend call
BeginAttempt ==
    /\ pc = "attempt"
    /\ context' = IF attempt > 0
                  THEN increment_retry(context, CurrentStep.name)
                  ELSE context
    /\ step_start' = now
    /\ calls' = Append(calls, BackendCall(index, attempt, current_input))
    /\ pc' = "await"
    /\ UNCHANGED <<workflow, initial_input, overflow_checks, other, config, returned, index, attempt,
                   last_error, current_input, step_results, now, start_time, outcome>>

\* time passes while the backend call is awaited and its timer, if any, has
\* not elapsed
Tick ==
    /\ pc = "await"
    /\ now < MaxClock
    /\ TimerArmed(CurrentStep) => Elapsed < CurrentStep.timeout.val
    /\ now' = now + 1
    /\ UNCHANGED <<workflow, initial_input, overflow_checks, other, config, returned, pc, index, attempt,
                   last_error, current_input, context, step_results, start_time,
                   step_start, calls, outcome>>

\* variant: a step that exhausts its attempts is marked failed and the loop
\* goes on with the next step
AttemptFailed_skip(err) ==
    /\ last_error' = Some(err)
    /\ IF attempt < max_retries(CurrentStep)
       THEN /\ pc' = "sleep"
            /\ UNCHANGED <<index, step_results>>
       ELSE /\ pc' = "loop"
            /\ index' = index + 1
            /\ step_results' = Append(step_results,
                   [step_name   |-> CurrentStep.name,
                    index       |-> index,
                    status      |-> [variant |-> "Failed"],
                    output      |-> None,
                    token_usage |-> [input_tokens |-> Zero, output_tokens |-> Zero],
                    duration    |-> DurationSince(now, step_start),
                    retry_count |-> attempt,
                    error       |-> Some(err)])
    /\ outcome' = outcome
    /\ UNCHANGED <<workflow, initial_input, overflow_checks, other, config, returned, attempt,
                   current_input, context, start_time, step_start>>

\* variant: a step that exhausts its attempts ends the run with a
\* partial-success WorkflowResult instead of an error
AttemptFailed_partial(err) ==
    /\ last_error' = Some(err)
    /\ IF attempt < max_retries(CurrentStep)
       THEN /\ pc' = "sleep"
            /\ outcome' = outcome
       ELSE /\ pc' = "done"
            /\ outcome' =
                  [kind   |-> "Ok",
                   result |-> [workflow_name     |-> workflow.name,
                               status            |-> [variant   |-> "PartialSuccess",
                                                      completed |-> Len(step_results),
                                                      total     |-> Len(workflow.steps)],
                               steps             |-> step_results,
                               start_time        |-> start_time,
                               end_time          |-> now,
                               total_duration    |-> DurationSince(now, start_time),
                               total_tokens_used |-> context.total_tokens_used,
                               error             |-> Some(err)]]
    /\ UNCHANGED <<workflow, initial_input, overflow_checks, other, config, returned, index, attempt,
                   current_input, context, step_results, start_time, step_start>>

\* variant: the error of the first failed attempt is the one kept
AttemptFailed_first_error(err) ==
    LET kept == IF last_error.some THEN last_error.val ELSE err
    IN  /\ last_error' = Some(kept)
        /\ IF RetryRemains(attempt, CurrentStep)
           THEN /\ pc' = "sleep"
                /\ outcome' = outcome
           ELSE /\ pc' = "done"
                /\ outcome' = [kind |-> "Err", error |-> kept]
        /\ UNCHANGED <<workflow, initial_input, overflow_checks, other, config, returned, index, attempt,
                       current_input, context, step_results, start_time, step_start>>

\* variant: a failure that another attempt cannot cure (no CLI tool, no
\* login) ends the run at once
AttemptFailed_fatal_kinds(err) ==
    /\ last_error' = Some(err)
    /\ IF /\ RetryRemains(attempt, CurrentStep)
          /\ ~(err.variant = "ProviderError" /\ err.source \in ProviderErrors)
       THEN /\ pc' = "sleep"
            /\ outcome' = outcome
       ELSE /\ pc' = "done"
            /\ outcome' = [kind |-> "Err", error |-> err]
    /\ UNCHANGED <<workflow, initial_input, overflow_checks, other, config, returned, index, attempt,
                   current_input, context, step_results, start_time, step_start>>

\* variant: a failed attempt clears the in-flight marker of the context
AttemptFailed_clear_marker(err) ==
    /\ last_error' = Some(err)
    /\ context' = [context EXCEPT !.current_step = None]
    /\ IF RetryRemains(attempt, CurrentStep)
       THEN /\ pc' = "sleep"
            /\ outcome' = outcome
       ELSE /\ pc' = "done"
            /\ outcome' = [kind |-> "Err", error |-> err]
    /\ UNCHANGED <<workflow, initial_input, overflow_checks, other, config, returned, index, attempt,
                   current_input, step_results, start_time, step_start>>

\* variant: the retry is given the kind of the failure as its input
AttemptFailed_error_as_input(err) ==
    /\ last_error' = Some(err)
    /\ current_input' = err.variant
    /\ IF RetryRemains(attempt, CurrentStep)
       THEN /\ pc' = "sleep"
            /\ outcome' = outcome
       ELSE /\ pc' = "done"
            /\ outcome' = [kind |-> "Err", error |-> err]
    /\ UNCHANGED <<workflow, initial_input, overflow_checks, other, config, returned, index, attempt,
                   context, step_results, start_time, step_start>>

\* the Err arm of execute_step_with_retry, and the `?` of execute when no
\* attempt is left
AttemptFailed(err) ==
    /\ last_error' = Some(err)
    /\ IF RetryRemains(attempt, CurrentStep)
       THEN /\ pc' = "sleep"
            /\ outcome' = outcome
       ELSE /\ pc' = "done"
            /\ outcome' = [kind |-> "Err", error |-> err]
    /\ UNCHANGED <<workflow, initial_input, overflow_checks, other, config, returned, index, attempt,
                   current_input, context, step_results, start_time, step_start>>

\* variant: a successful attempt does not leave the retry loop while the
\* budget lasts
AttemptSucceeded_retry_on(response) ==
    LET duration == DurationSince(now, step_start)
        rec == record_step_result(
                   context,
                   StepOutput(CurrentStep.name, response.content,
                              response.token_usage, duration),
                   overflow_checks)
        result == MarkRetried(StepResult(CurrentStep, index, response, duration),
                              attempt)
    IN  IF rec.panic
        THEN /\ pc' = "done"
             /\ outcome' = [kind |-> "Panic"]
             /\ UNCHANGED <<context, current_input, step_results, index>>
        ELSE IF RetryRemains(attempt, CurrentStep)
        THEN /\ context' = rec.ctx
             /\ pc' = "sleep"
             /\ outcome' = outcome
             /\ UNCHANGED <<current_input, step_results, index>>
        ELSE /\ context' = rec.ctx
             /\ current_input' = NextInput(current_input, result)
             /\ step_results' = Append(step_results, result)
             /\ index' = index + 1
             /\ pc' = "loop"
             /\ outcome' = outcome

\* the rest of execute_step after a successful backend call, the Ok arm of the
\* retry loop and the end of the iteration of execute
AttemptSucceeded(response) ==
    LET duration == DurationSince(now, step_start)
        rec == record_step_result(
                   context,
                   StepOutput(CurrentStep.name, response.content,
                              response.token_usage, duration),
                   overflow_checks)
        result == MarkRetried(StepResult(CurrentStep, index, response, duration),
                              attempt)
    IN  IF rec.panic
        THEN /\ pc' = "done"
             /\ outcome' = [kind |-> "Panic"]
             /\ UNCHANGED <<context, current_input, step_results, index>>
        ELSE /\ context' = rec.ctx
             /\ current_input' = NextInput(current_input, result)
             /\ step_results' = Append(step_results, result)
             /\ index' = index + 1
             /\ pc' = "loop"
             /\ outcome' = outcome

\* the backend call completes with a response
BackendReturnsOk ==
    /\ pc = "await"
    /\ CallPending
    /\ \E r \in ClientResults(CurrentStep.provider) :
          /\ r.ok
          /\ calls' = Resolve(calls, [kind        |-> "Ok",
                                      content     |-> r.response.content,
                                      token_usage |-> r.response.token_usage])
          /\ AttemptSucceeded(r.response)
    /\ UNCHANGED <<workflow, initial_input, overflow_checks, other, config, returned, attempt, last_error,
                   now, start_time, step_start>>

\* variant: under a timer, a backend error is reported as a timeout
BackendReturnsErr_as_timeout ==
    /\ pc = "await"
    /\ CallPending
    /\ \E r \in ClientResults(CurrentStep.provider) :
          /\ ~r.ok
          /\ calls' = Resolve(calls, [kind |-> "Err", error |-> r.error])
          /\ AttemptFailed(IF TimerArmed(CurrentStep)
                           THEN TimeoutError(CurrentStep.name, CurrentStep.timeout.val)
                           ELSE ProviderError(r.error))
    /\ now' = now

\* the backend call completes with an error
BackendReturnsErr ==
    /\ pc = "await"
    /\ CallPending
    /\ \E r \in ClientResults(CurrentStep.provider) :
          /\ ~r.ok
          /\ calls' = Resolve(calls, [kind |-> "Err", error |-> r.error])
          /\ AttemptFailed(ProviderError(r.error))
    /\ now' = now

\* variant: a timeout ends the run whatever retry budget is left
TimerElapses_fatal ==
    /\ pc = "await"
    /\ TimerArmed(CurrentStep)
    /\ now' = IF Elapsed <= CurrentStep.timeout.val
              THEN step_start + CurrentStep.timeout.val
              ELSE now
    /\ calls' = Resolve(calls, [kind |-> "Abandoned"])
    /\ last_error' = Some(TimeoutError(CurrentStep.name, CurrentStep.timeout.val))
    /\ pc' = "done"
    /\ outcome' = [kind  |-> "Err",
                   error |-> TimeoutError(CurrentStep.name, CurrentStep.timeout.val)]
    /\ UNCHANGED <<workflow, initial_input, overflow_checks, other, config, returned, index, attempt,
                   current_input, context, step_results, start_time, step_start>>

\* the backend call is still pending when the timer of tokio::time::timeout
\* elapses: the call is dropped and the attempt fails with a TimeoutError.  The
\* timer fires at its deadline, or at once if the clock is already past it
\* (another call of execute has been running in between).
TimerElapses ==
    /\ pc = "await"
    /\ TimerArmed(CurrentStep)
    /\ now' = IF Elapsed <= CurrentStep.timeout.val
              THEN step_start + CurrentStep.timeout.val
              ELSE now
    /\ calls' = Resolve(calls, [kind |-> "Abandoned"])
    /\ AttemptFailed(TimeoutError(CurrentStep.name, CurrentStep.timeout.val))

\* the backend call gets into a state from which it never returns (the child
\* process blocks for good); the future of the call stays pending
BackendHangs ==
    /\ pc = "await"
    /\ CallPending
    /\ calls' = Resolve(calls, [kind |-> "Hung"])
    /\ UNCHANGED <<workflow, initial_input, overflow_checks, other, config, returned, pc, index, attempt,
                   last_error, current_input, context, step_results, now,
                   start_time, step_start, outcome>>

\* the backoff sleep ends and the next iteration of the retry loop begins
BackoffElapsed ==
    /\ pc = "sleep"
    /\ now' = now + BackoffSecs
    /\ attempt' = attempt + 1
    /\ pc' = "attempt"
    /\ UNCHANGED <<workflow, initial_input, overflow_checks, other, config, returned, index, last_error,
                   current_input, context, step_results, start_time, step_start,
                   calls, outcome>>

\* the loop is over: the WorkflowResult is returned
Finish ==
    /\ pc = "loop"
    /\ index = Len(workflow.steps)
    /\ outcome' = [kind |-> "Ok", result |-> WorkflowResult(now)]
    /\ pc' = "done"
    /\ UNCHANGED <<workflow, initial_input, overflow_checks, other, config, returned, index, attempt,
                   last_error, current_input, context, step_results, now,
                   start_time, step_start, calls>>

Next ==
    \/ Execute
    \/ StartStep
    \/ BeginAttempt
    \/ Tick
    \/ BackendReturnsOk
    \/ BackendReturnsErr
    \/ TimerElapses
    \/ BackendHangs
    \/ BackoffElapsed
    \/ Finish

Spec == Init /\ [][Next]_vars

\* The run under the scheduling of the async runtime: the task of execute is
\* polled whenever it can go on, a sleep and a timer end, and a backend call
\* that has not hung completes.  Nothing makes a hung call return.
SpecLive ==
    /\ Init
    /\ [][Next]_vars
    /\ WF_vars(Execute)
    /\ WF_vars(StartStep)
    /\ WF_vars(BeginAttempt)
    /\ WF_vars(BackendReturnsOk \/ BackendReturnsErr \/ TimerElapses)
    /\ WF_vars(BackoffElapsed)
    /\ WF_vars(Finish)

-----------------------------------------------------------------------------
(* Two calls of execute on one executor.  `execute(&self)` borrows the      *)
(* executor shared: the workflow and the initial input are common to both   *)
(* calls, everything in ThisRun is local to a call.  The variables hold the *)
(* frame of the call whose code runs next, `other` the frame of the other   *)
(* call.                                                                    *)

\* the workflows executed twice
TwoRunInit ==
    /\ Init
    /\ workflow \in WorkflowsUpTo(MaxRunCalls)

\* a future is left only where it awaits (the backend call, the backoff sleep)
\* or when it has returned
AtYieldPoint == pc \in {"await", "sleep", "done"}

\* variant: the two calls work on one execution context kept in the executor
Switch_shared_context ==
    /\ AtYieldPoint
    /\ other' = ThisRun
    /\ pc' = other.pc
    /\ index' = other.index
    /\ attempt' = other.attempt
    /\ last_error' = other.last_error
    /\ current_input' = other.current_input
    /\ context' = context
    /\ step_results' = other.step_results
    /\ start_time' = other.start_time
    /\ step_start' = other.step_start
    /\ calls' = other.calls
    /\ outcome' = other.outcome
    /\ UNCHANGED <<workflow, initial_input, overflow_checks, config, returned, now>>

\* the runtime goes on with the other call (both are futures over `&self`,
\* polled in any order)
Switch ==
    /\ AtYieldPoint
    /\ other' = ThisRun
    /\ pc' = other.pc
    /\ index' = other.index
    /\ attempt' = other.attempt
    /\ last_error' = other.last_error
    /\ current_input' = other.current_input
    /\ context' = other.context
    /\ step_results' = other.step_results
    /\ start_time' = other.start_time
    /\ step_start' = other.step_start
    /\ calls' = other.calls
    /\ outcome' = other.outcome
    /\ UNCHANGED <<workflow, initial_input, overflow_checks, config, returned, now>>

NextConcurrent ==
    \/ Next
    \/ Switch

SpecConcurrent == TwoRunInit /\ [][NextConcurrent]_vars

\* execute has ended and is called once more on the same executor: the ended
\* call is kept in `other`; the new frame holds nothing but what the code is
\* going to assign (the variables keep their stale values until then)
ExecuteAgain ==
    /\ pc = "done"
    /\ other.pc = "idle"
    /\ other' = ThisRun
    /\ pc' = "idle"
    /\ calls' = <<>>
    /\ outcome' = [kind |-> "None"]
    /\ UNCHANGED <<workflow, initial_input, overflow_checks, config, returned,
                   index, attempt, last_error, current_input, context,
                   step_results, now, start_time, step_start>>

NextSequential ==
    \/ Next
    \/ ExecuteAgain

SpecSequential == TwoRunInit /\ [][NextSequential]_vars

-----------------------------------------------------------------------------
(* Backend calls given up at their timer.  Dropping the future of          *)
(* client.execute does not stop the CLI process it spawned: the process    *)
(* runs on and ends at some later time, with an answer or an error that    *)
(* nothing reads.                                                          *)

\* backend call i was given up and its CLI process has not ended yet
StillRunning(i) == calls[i].result = [kind |-> "Abandoned"]

\* variant: the answer of a call given up earlier is recorded when it arrives
AbandonedCallEnds_delivered ==
    \E i \in DOMAIN calls :
        /\ StillRunning(i)
        /\ \E r \in ClientResults(workflow.steps[calls[i].step + 1].provider) :
              LET rec == IF r.ok
                         THEN record_step_result(
                                  context,
                                  StepOutput(workflow.steps[calls[i].step + 1].name,
                                             r.response.content,
                                             r.response.token_usage, 0),
                                  overflow_checks)
                         ELSE [panic |-> TRUE]
              IN  /\ calls' = [calls EXCEPT ![i].result =
                                   [kind |-> "Abandoned", late |-> r]]
                  /\ context' = IF rec.panic THEN context ELSE rec.ctx
        /\ UNCHANGED <<workflow, initial_input, overflow_checks, other, config, returned, pc, index,
                       attempt, last_error, current_input, step_results, now,
                       start_time, step_start, outcome>>

\* the CLI process of a call given up earlier ends: the engine is not waiting
\* on it and nothing of the run changes
AbandonedCallEnds ==
    \E i \in DOMAIN calls :
        /\ StillRunning(i)
        /\ \E r \in ClientResults(workflow.steps[calls[i].step + 1].provider) :
              calls' = [calls EXCEPT ![i].result = [kind |-> "Abandoned", late |-> r]]
        /\ UNCHANGED <<workflow, initial_input, overflow_checks, other, config, returned, pc, index,
                       attempt, last_error, current_input, context, step_results, now,
                       start_time, step_start, outcome>>

NextAbandoned ==
    \/ Next
    \/ AbandonedCallEnds

SpecAbandoned == Init /\ [][NextAbandoned]_vars

-----------------------------------------------------------------------------
(* A free-standing ExecutionContext driven by arbitrary calls of its       *)
(* methods (the unit tests of engine/context.rs).                          *)

CtxNames == {"A", "B"}
CtxDurations == {0, 1}
\* the third usage overflows inside TokenUsage::total
CtxTokenUsages ==
    TokenUsages \cup {[input_tokens |-> <<65535, 65535>>, output_tokens |-> <<0, 1>>]}
\* the context never reads the content of an output: one content is enough
CtxContents == {"out-A"}
CtxOutputs ==
    {StepOutput(n, c, u, d) :
        n \in CtxNames, c \in CtxContents, u \in CtxTokenUsages, d \in CtxDurations}

InitCtx ==
    /\ workflow = [name |-> "wf", steps |-> <<WorkflowStep(1, None, None)>>]
    /\ initial_input = None
    /\ overflow_checks \in BOOLEAN
    /\ pc = "ctx"
    /\ index = 0
    /\ attempt = 0
    /\ last_error = None
    /\ current_input = ""
    /\ context = NewContext(workflow.name, 0)
    /\ step_results = <<>>
    /\ now = 0
    /\ start_time = 0
    /\ step_start = 0
    /\ calls = <<>>
    /\ outcome = [kind |-> "None"]
    /\ other = IdleRun(workflow)
    /\ config = NoConfig
    /\ returned = None

CtxStartStep ==
    /\ pc = "ctx"
    /\ \E n \in CtxNames : context' = start_step(context, n)
    /\ UNCHANGED <<workflow, initial_input, overflow_checks, other, config, returned, pc, index, attempt,
                   last_error, current_input, step_results, now, start_time,
                   step_start, calls, outcome>>

CtxRecord ==
    /\ pc = "ctx"
    /\ Len(context.step_outputs) < MaxRecords
    /\ \E output \in CtxOutputs :
          LET rec == record_step_result(context, output, overflow_checks)
          IN  IF rec.panic
              THEN /\ pc' = "done"
                   /\ outcome' = [kind |-> "Panic"]
                   /\ context' = context
              ELSE /\ context' = rec.ctx
                   /\ UNCHANGED <<pc, outcome>>
    /\ UNCHANGED <<workflow, initial_input, overflow_checks, other, config, returned, index, attempt,
                   last_error, current_input, step_results, now, start_time,
                   step_start, calls>>

CtxIncrementRetry ==
    /\ pc = "ctx"
    /\ \E n \in CtxNames :
          /\ get_retry_count(context, n) < MaxRecords
          /\ context' = increment_retry(context, n)
    /\ UNCHANGED <<workflow, initial_input, overflow_checks, other, config, returned, pc, index, attempt,
                   last_error, current_input, step_results, now, start_time,
                   step_start, calls, outcome>>

NextCtx ==
    \/ CtxStartStep
    \/ CtxRecord
    \/ CtxIncrementRetry

SpecCtx == InitCtx /\ [][NextCtx]_vars

-----------------------------------------------------------------------------
(* Configuration (config/dto.rs, config/step.rs, config/workflow.rs): a raw *)
(* definition (WorkflowDto) is validated into a Workflow and converted     *)
(* back.  A String of the raw definition is the sequence of its characters *)
(* (ASCII, one byte each).                                                 *)

\* upper bound of the length in bytes of a system prompt
MaxPromptLen == 10000

UpperCase == <<"A", "B", "C", "D", "E", "F", "G", "H", "I", "J", "K", "L", "M",
               "N", "O", "P", "Q", "R", "S", "T", "U", "V", "W", "X", "Y", "Z">>
LowerCase == <<"a", "b", "c", "d", "e", "f", "g", "h", "i", "j", "k", "l", "m",
               "n", "o", "p", "q", "r", "s", "t", "u", "v", "w", "x", "y", "z">>
Whitespace == {" ", "\t", "\n"}

\* str::to_lowercase
to_lowercase(str) ==
    [i \in DOMAIN str |->
        IF \E k \in DOMAIN UpperCase : UpperCase[k] = str[i]
        THEN LowerCase[CHOOSE k \in DOMAIN UpperCase : UpperCase[k] = str[i]]
        ELSE str[i]]

\* `s.trim().is_empty()`
IsBlank(str) == \A i \in DOMAIN str : str[i] \in Whitespace

\* the string of n characters c
Repeat(c, n) == [i \in 1..n |-> c]

anthropic == <<"a", "n", "t", "h", "r", "o", "p", "i", "c">>
openai == <<"o", "p", "e", "n", "a", "i">>
heavy == <<"h", "e", "a", "v", "y">>
medium == <<"m", "e", "d", "i", "u", "m">>
light == <<"l", "i", "g", "h", "t">>

\* ConfigError::Validation; `what` stands for the message
Validation(what) == [variant |-> "Validation", what |-> what]

\* variant: the step comes back with the names of the enum variants
WorkflowStepDto_from_variant_names(step) ==
    [name          |-> step.name,
     system_prompt |-> step.system_prompt,
     provider      |-> IF step.provider = "Anthropic"
                       THEN <<"A", "n", "t", "h", "r", "o", "p", "i", "c">>
                       ELSE <<"O", "p", "e", "n", "A", "I">>,
     model_tier    |-> CASE step.model_tier = "Heavy"  -> heavy
                         [] step.model_tier = "Medium" -> medium
                         [] step.model_tier = "Light"  -> light,
     timeout       |-> step.timeout,
     retry_count   |-> step.retry_count]

\* impl TryFrom<WorkflowStepDto> for WorkflowStep
WorkflowStep_try_from(dto) ==
    IF IsBlank(dto.name) THEN [ok |-> FALSE, error |-> Validation("step name")]
    ELSE IF IsBlank(dto.system_prompt)
    THEN [ok |-> FALSE, error |-> Validation("system prompt empty")]
    ELSE IF Len(dto.system_prompt) > MaxPromptLen
    THEN [ok |-> FALSE, error |-> Validation("system prompt too long")]
    ELSE IF to_lowercase(dto.provider) \notin {anthropic, openai}
    THEN [ok |-> FALSE, error |-> Validation("provider")]
    ELSE IF to_lowercase(dto.model_tier) \notin {heavy, medium, light}
    THEN [ok |-> FALSE, error |-> Validation("model tier")]
    ELSE [ok   |-> TRUE,
          step |-> [name          |-> dto.name,
                    system_prompt |-> dto.system_prompt,
                    provider      |-> IF to_lowercase(dto.provider) = anthropic
                                      THEN "Anthropic" ELSE "OpenAI",
                    model_tier    |-> CASE to_lowercase(dto.model_tier) = heavy  -> "Heavy"
                                        [] to_lowercase(dto.model_tier) = medium -> "Medium"
                                        [] to_lowercase(dto.model_tier) = light  -> "Light",
                    timeout       |-> dto.timeout,
                    retry_count   |-> dto.retry_count]]

\* impl From<WorkflowStep> for WorkflowStepDto
WorkflowStepDto_from(step) ==
    [name          |-> step.name,
     system_prompt |-> step.system_prompt,
     provider      |-> IF step.provider = "Anthropic" THEN anthropic ELSE openai,
     model_tier    |-> CASE step.model_tier = "Heavy"  -> heavy
                         [] step.model_tier = "Medium" -> medium
                         [] step.model_tier = "Light"  -> light,
     timeout       |-> step.timeout,
     retry_count   |-> step.retry_count]

\* the first name of a step list that an earlier step of the list has too
\* (`!step_names.insert(step.name())`)
FirstDuplicate(steps) ==
    LET dups == {j \in DOMAIN steps : \E i \in 1..(j - 1) : steps[i].name = steps[j].name}
    IN  IF dups = {} THEN None
        ELSE Some(steps[CHOOSE j \in dups : \A k \in dups : j <= k].name)

\* variant: step names are not compared
Workflow_try_from_no_unique(dto) ==
    IF IsBlank(dto.workflow.name) THEN [ok |-> FALSE, error |-> Validation("workflow name")]
    ELSE IF dto.steps = <<>> THEN [ok |-> FALSE, error |-> Validation("no steps")]
    ELSE
      LET conv == [i \in DOMAIN dto.steps |-> WorkflowStep_try_from(dto.steps[i])]
          bad  == {i \in DOMAIN conv : ~conv[i].ok}
      IN  IF bad # {}
          THEN [ok |-> FALSE, error |-> conv[CHOOSE i \in bad : \A k \in bad : i <= k].error]
          ELSE [ok       |-> TRUE,
                workflow |-> [name        |-> dto.workflow.name,
                              description |-> dto.workflow.description,
                              version     |-> dto.workflow.version,
                              steps       |-> [i \in DOMAIN conv |-> conv[i].step]]]

\* impl TryFrom<WorkflowDto> for Workflow
Workflow_try_from(dto) ==
    IF IsBlank(dto.workflow.name) THEN [ok |-> FALSE, error |-> Validation("workflow name")]
    ELSE IF dto.steps = <<>> THEN [ok |-> FALSE, error |-> Validation("no steps")]
    ELSE
      LET conv == [i \in DOMAIN dto.steps |-> WorkflowStep_try_from(dto.steps[i])]
          bad  == {i \in DOMAIN conv : ~conv[i].ok}
          steps == [i \in DOMAIN conv |-> conv[i].step]
      IN  IF bad # {}
          THEN [ok |-> FALSE, error |-> conv[CHOOSE i \in bad : \A k \in bad : i <= k].error]
          ELSE IF FirstDuplicate(steps).some
          THEN [ok |-> FALSE, error |-> Validation("duplicate step name")]
          ELSE [ok       |-> TRUE,
                workflow |-> [name        |-> dto.workflow.name,
                              description |-> dto.workflow.description,
                              version     |-> dto.workflow.version,
                              steps       |-> steps]]

\* impl From<Workflow> for WorkflowDto
WorkflowDto_from(wf) ==
    [workflow |-> [name        |-> wf.name,
                   description |-> wf.description,
                   version     |-> wf.version],
     steps    |-> [i \in DOMAIN wf.steps |-> WorkflowStepDto_from(wf.steps[i])]]

\* a raw step that is valid
BaseStepDto(name) ==
    [name          |-> name,
     system_prompt |-> <<"d", "o">>,
     provider      |-> anthropic,
     model_tier    |-> heavy,
     timeout       |-> None,
     retry_count   |-> None]

\* the raw steps enumerated: valid steps of several names, and one of them with
\* a field or two replaced
StepDtos ==
    {BaseStepDto(n) : n \in {<<"a">>, <<"b">>, <<" ">>, <<" ", "a">>}}
    \cup {[BaseStepDto(<<"a">>) EXCEPT !.system_prompt = p] :
            p \in {<<>>, <<" ", "\n">>, Repeat("x", MaxPromptLen),
                   Repeat("x", MaxPromptLen + 1)}}
    \cup {[BaseStepDto(<<"a">>) EXCEPT !.provider = p] :
            p \in {<<"O", "p", "e", "n", "A", "I">>,
                   <<"A", "N", "T", "H", "R", "O", "P", "I", "C">>,
                   <<"g", "e", "m", "i", "n", "i">>}}
    \cup {[BaseStepDto(<<"b">>) EXCEPT !.provider = openai, !.model_tier = t] :
            t \in {<<"M", "e", "d", "i", "u", "m">>, light, <<"h", "u", "g", "e">>}}
    \cup {[BaseStepDto(<<"b">>) EXCEPT !.timeout = Some(60), !.retry_count = r] :
            r \in {None, Some(0), Some(3)}}

\* the raw definitions enumerated
WorkflowDtos ==
    {[workflow |-> [name |-> n, description |-> d, version |-> v], steps |-> st] :
        n \in {<<>>, <<" ">>, <<"w">>},
        d \in {None, Some(<<"d">>)},
        v \in {None, Some(<<"1">>)},
        st \in UNION {[1..k -> StepDtos] : k \in 0..MaxDtoSteps}}

InitConfig ==
    /\ workflow = [name |-> "wf", steps |-> <<WorkflowStep(1, None, None)>>]
    /\ initial_input = None
    /\ overflow_checks = FALSE
    /\ pc = "config"
    /\ index = 0
    /\ attempt = 0
    /\ last_error = None
    /\ current_input = ""
    /\ context = NewContext(workflow.name, 0)
    /\ step_results = <<>>
    /\ now = 0
    /\ start_time = 0
    /\ step_start = 0
    /\ calls = <<>>
    /\ outcome = [kind |-> "None"]
    /\ other = IdleRun(workflow)
    /\ \E dto \in WorkflowDtos : config = [dto |-> Some(dto), result |-> None, back |-> None]
    /\ returned = None

\* Workflow::try_from(dto)
TryFromDto ==
    /\ pc = "config"
    /\ config.dto.some
    /\ ~config.result.some
    /\ config' = [config EXCEPT !.result = Some(Workflow_try_from(config.dto.val))]
    /\ UNCHANGED <<workflow, initial_input, overflow_checks, other, returned, pc, index, attempt,
                   last_error, current_input, context, step_results, now,
                   start_time, step_start, calls, outcome>>

\* `let dto: WorkflowDto = workflow.clone().into()`
IntoDto ==
    /\ pc = "config"
    /\ config.result.some
    /\ config.result.val.ok
    /\ ~config.back.some
    /\ config' = [config EXCEPT !.back = Some(WorkflowDto_from(config.result.val.workflow))]
    /\ UNCHANGED <<workflow, initial_input, overflow_checks, other, returned, pc, index, attempt,
                   last_error, current_input, context, step_results, now,
                   start_time, step_start, calls, outcome>>

\* WorkflowExecutor::new(workflow): the only way a Workflow gets to an executor
NewExecutor ==
    /\ pc = "config"
    /\ config.result.some
    /\ config.result.val.ok
    /\ workflow' = config.result.val.workflow
    /\ initial_input' = None
    /\ other' = IdleRun(workflow')
    /\ context' = NewContext(workflow'.name, 0)
    /\ pc' = "idle"
    /\ UNCHANGED <<overflow_checks, config, returned, index, attempt, last_error,
                   current_input, step_results, now, start_time, step_start,
                   calls, outcome>>

NextConfig ==
    \/ TryFromDto
    \/ IntoDto
    \/ NewExecutor

SpecConfig == InitConfig /\ [][NextConfig]_vars

-----------------------------------------------------------------------------
(* WorkflowResult values of any content (all fields are public) and the    *)
(* queries on them (the unit tests of engine/result.rs).                   *)

\* WorkflowResult::is_success
is_success(result) == result.status.variant = "Success"

\* variant: only steps that succeeded at the first attempt are counted
completed_steps_first_try(result) ==
    Len(SelectSeq(result.steps, LAMBDA step : step.status.variant = "Success"))

\* WorkflowResult::completed_steps
completed_steps(result) ==
    Len(SelectSeq(result.steps,
                  LAMBDA step : step.status.variant \in {"Success", "Retried"}))

\* a Step Result with the given status; a result of any content can be built:
\* the other fields are not read by the queries
AnyStepResult(i, status) ==
    [step_name   |-> StepNames[i],
     index       |-> i - 1,
     status      |-> status,
     output      |-> IF status.variant \in {"Success", "Retried"}
                     THEN Some("out-A") ELSE None,
     token_usage |-> [input_tokens |-> <<0, 100>>, output_tokens |-> <<0, 50>>],
     duration    |-> 1,
     retry_count |-> IF status.variant = "Retried" THEN status.attempts ELSE 0,
     error       |-> IF status.variant = "Failed" THEN Some("error") ELSE None]

\* the WorkflowResult values enumerated
AnyWorkflowResults ==
    {[workflow_name     |-> "wf",
      status            |-> status,
      steps             |-> [i \in DOMAIN sts |-> AnyStepResult(i, sts[i])],
      start_time        |-> 0,
      end_time          |-> 1,
      total_duration    |-> 1,
      total_tokens_used |-> <<0, 150>>,
      error             |-> IF status.variant = "Failed" THEN Some("error") ELSE None] :
        status \in ExecutionStatus,
        sts \in UNION {[1..n -> StepStatus] : n \in 0..MaxResultSteps}}

InitResult ==
    /\ workflow = [name |-> "wf", steps |-> <<WorkflowStep(1, None, None)>>]
    /\ initial_input = None
    /\ overflow_checks = FALSE
    /\ pc = "result"
    /\ index = 0
    /\ attempt = 0
    /\ last_error = None
    /\ current_input = ""
    /\ context = NewContext(workflow.name, 0)
    /\ step_results = <<>>
    /\ now = 0
    /\ start_time = 0
    /\ step_start = 0
    /\ calls = <<>>
    /\ \E r \in AnyWorkflowResults : outcome = [kind |-> "Ok", result |-> r]
    /\ other = IdleRun(workflow)
    /\ config = NoConfig
    /\ returned = None

\* result.is_success()
IsSuccess ==
    /\ pc = "result"
    /\ returned' = Some([call |-> "is_success", val |-> is_success(outcome.result)])
    /\ UNCHANGED <<workflow, initial_input, overflow_checks, other, config, pc,
                   index, attempt, last_error, current_input, context,
                   step_results, now, start_time, step_start, calls, outcome>>

\* result.completed_steps()
CompletedSteps ==
    /\ pc = "result"
    /\ returned' = Some([call |-> "completed_steps",
                         val  |-> completed_steps(outcome.result)])
    /\ UNCHANGED <<workflow, initial_input, overflow_checks, other, config, pc,
                   index, attempt, last_error, current_input, context,
                   step_results, now, start_time, step_start, calls, outcome>>

NextResult ==
    \/ IsSuccess
    \/ CompletedSteps

SpecResult == InitResult /\ [][NextResult]_vars

-----------------------------------------------------------------------------
(* Properties of execute.  A run that aborts by an arithmetic-overflow     *)
(* panic (outcome.kind = "Panic") returns neither a result nor an error.   *)

\* the retry budget R of a step, as configured
Budget(step) == IF step.retry_count.some THEN step.retry_count.val ELSE 0
\* the backend calls made for the step with 0-based index j
CallsOf(j) == {i \in DOMAIN calls : calls[i].step = j}
\* call i ended in a backend error or was abandoned at its timer
FailedCall(i) == calls[i].result.kind \in {"Err", "Abandoned"}
NoCallFailed == \A i \in DOMAIN calls : ~FailedCall(i)
NumSteps == Len(workflow.steps)
Returned == pc = "done" /\ outcome.kind \in {"Ok", "Err"}

\* C1: while no backend call has failed, the k-th backend call is made for the
\* k-th step of the definition, the first call's user_input is the supplied
\* initial input ("" when none was supplied), every later call's user_input is
\* the content the previous call returned, and when execute returns it has
\* returned a result after exactly N calls.
C1_Sequencing ==
    NoCallFailed =>
        /\ \A i \in DOMAIN calls :
              /\ calls[i].step = i - 1
              /\ calls[i].user_input =
                    IF i = 1
                    THEN (IF initial_input.some THEN initial_input.val ELSE "")
                    ELSE calls[i - 1].result.content
        /\ Len(calls) <= NumSteps
        /\ Returned => outcome.kind = "Ok" /\ Len(calls) = NumSteps

C1_Witness ==
    /\ Returned
    /\ NoCallFailed
    /\ NumSteps = 3
    /\ ~initial_input.some
    /\ calls[1].result.content = ""
    /\ calls[2].result.content = "out-A"

\* C2: once the last permitted attempt of a step has failed, execute has
\* returned an error: that call is the last backend call of the run, and no
\* WorkflowResult is produced.
C2_FailFast ==
    \A i \in DOMAIN calls :
        (FailedCall(i) /\ calls[i].attempt = Budget(workflow.steps[calls[i].step + 1]))
            => /\ pc = "done"
               /\ outcome.kind = "Err"
               /\ i = Len(calls)
               /\ Len(step_results) = calls[i].step

C2_Witness ==
    /\ outcome.kind = "Err"
    /\ NumSteps = 3
    /\ index = 1
    /\ Len(calls) = 2
    /\ FailedCall(2)

\* C3: for a step with retry budget R all of whose attempts so far have failed,
\* the backend has been invoked at most R+1 times; execute has returned an error
\* exactly when the (R+1)-th attempt has failed, and no Step Result exists for
\* the step.
C3_RetryExhaustion ==
    \A j \in 0..(NumSteps - 1) :
        LET cs == CallsOf(j)
            R  == Budget(workflow.steps[j + 1])
        IN  (cs # {} /\ \A i \in cs : FailedCall(i)) =>
                /\ Cardinality(cs) <= R + 1
                /\ Cardinality(cs) = R + 1 <=> (pc = "done" /\ outcome.kind = "Err")
                /\ \A k \in DOMAIN step_results : step_results[k].index # j
                /\ Len(step_results) = j

C3_Witness ==
    /\ outcome.kind = "Err"
    /\ Budget(workflow.steps[index + 1]) = 2
    /\ Cardinality(CallsOf(index)) = 3
    /\ \E i \in CallsOf(index) : calls[i].result.kind = "Err"

\* C4: a Step Result whose step failed k times before its successful attempt
\* has status Retried{attempts: k} and retry_count k when k >= 1, status Success
\* and retry_count 0 when k = 0, and the context's retry counter of the step
\* reads k.
C4_RetryRecovery ==
    \A p \in DOMAIN step_results :
        LET r == step_results[p]
            k == Cardinality({i \in CallsOf(r.index) : FailedCall(i)})
        IN  /\ r.status = IF k >= 1
                          THEN [variant |-> "Retried", attempts |-> k]
                          ELSE [variant |-> "Success"]
            /\ r.retry_count = k
            /\ get_retry_count(context, r.step_name) = k
            /\ k <= Budget(workflow.steps[r.index + 1])

C4_Witness ==
    \E p \in DOMAIN step_results :
        /\ step_results[p].retry_count = 2
        /\ step_results[p].status = [variant |-> "Retried", attempts |-> 2]

\* C5: when the timer of a step with timeout T elapses on the pending call, the
\* attempt's error is TimeoutError{step name, T}; like a backend failure, the
\* failed attempt is followed by another attempt iff its number is below the
\* retry budget, and otherwise execute returns that error.
C5_Timeout ==
    (calls # <<>> /\ FailedCall(Len(calls))) =>
        LET c    == calls[Len(calls)]
            step == workflow.steps[c.step + 1]
        IN  /\ c.result.kind = "Abandoned" =>
                  /\ step.timeout.some
                  /\ last_error = Some([variant      |-> "TimeoutError",
                                        step_name    |-> step.name,
                                        timeout_secs |-> step.timeout.val])
            /\ c.result.kind = "Err" => last_error.val.variant = "ProviderError"
            /\ IF c.attempt < Budget(step)
               THEN pc \in {"sleep", "attempt"} /\ outcome.kind = "None"
               ELSE pc = "done" /\ outcome = [kind |-> "Err", error |-> last_error.val]

C5_Witness ==
    /\ outcome.kind = "Err"
    /\ outcome.error.variant = "TimeoutError"
    /\ Budget(workflow.steps[index + 1]) = 1
    /\ Cardinality(CallsOf(index)) = 2
    /\ \A i \in CallsOf(index) : calls[i].result.kind = "Abandoned"

\* the arithmetic (unbounded) sum of token_usage.total() over a list of outputs
RECURSIVE SumTotals(_)
SumTotals(outs) ==
    IF outs = <<>> THEN Zero
    ELSE AddExact(Total(outs[1].token_usage, overflow_checks).val, SumTotals(Tail(outs)))

\* the sum of the execution durations of a list of outputs
RECURSIVE SumDurations(_)
SumDurations(outs) ==
    IF outs = <<>> THEN 0 ELSE outs[1].execution_time + SumDurations(Tail(outs))

\* C6: the cumulative token counter of a context equals the arithmetic sum of
\* token_usage.total() over the Step Outputs recorded so far, after every record.
C6_TokenSum == total_tokens(context) = SumTotals(context.step_outputs)

\* C7: total_duration() of a context equals the sum of the execution durations
\* of the Step Outputs recorded so far, and is zero before any record.
C7_DurationSum == total_duration(context) = SumDurations(context.step_outputs)

C7_Witness ==
    /\ pc = "ctx"
    /\ Len(context.step_outputs) = 2
    /\ context.step_outputs[1].execution_time = 1
    /\ total_duration(context) = 2

\* C8: a WorkflowResult returned by execute has status Success, no error and
\* exactly N Step Results, the i-th with index i (0-based) and the name of the
\* i-th step of the definition; execute returns one whenever it returns after
\* every step has had a successful attempt.
C8_AllSucceed ==
    /\ outcome.kind = "Ok" =>
          LET r == outcome.result
          IN  /\ r.status = [variant |-> "Success"]
              /\ r.error = None
              /\ Len(r.steps) = NumSteps
              /\ \A i \in DOMAIN r.steps :
                    /\ r.steps[i].index = i - 1
                    /\ r.steps[i].step_name = workflow.steps[i].name
    /\ (Returned /\ \A j \in 0..(NumSteps - 1) :
                       \E i \in CallsOf(j) : calls[i].result.kind = "Ok")
          => outcome.kind = "Ok"

C8_Witness ==
    /\ outcome.kind = "Ok"
    /\ NumSteps = 2
    /\ Len(calls) = 3
    /\ FailedCall(2)

\* C9: whatever execute returns is an error or a WorkflowResult with status
\* Success; no WorkflowResult has status PartialSuccess or Failed and no Step
\* Result has status Failed or Skipped.
C9_OnlySuccess ==
    /\ pc = "done" => outcome.kind \in {"Ok", "Err", "Panic"}
    /\ outcome.kind = "Err" => DOMAIN outcome = {"kind", "error"}
    /\ outcome.kind = "Ok" =>
          /\ outcome.result.status = [variant |-> "Success"]
          /\ \A i \in DOMAIN outcome.result.steps :
                outcome.result.steps[i].status.variant \in {"Success", "Retried"}
    /\ \A i \in DOMAIN step_results :
          step_results[i].status.variant \in {"Success", "Retried"}

C9_Witness ==
    /\ outcome.kind = "Err"
    /\ NumSteps = 2
    /\ Len(step_results) = 1
    /\ step_results[1].status.variant = "Retried"

\* C10 as stated: the error execute returns identifies the step that failed and
\* why, and for a timeout the configured threshold, for backend failures as
\* well as for timeouts.
C10_ErrorNamesStep ==
    outcome.kind = "Err" =>
        LET e == outcome.error
        IN  /\ e.variant \in {"ProviderError", "TimeoutError", "ConfigError"}
            /\ "step_name" \in DOMAIN e
            /\ e.step_name = CurrentStep.name
            /\ e.variant = "TimeoutError" => e.timeout_secs = CurrentStep.timeout.val

\* C10 as amended: the error execute returns tells why the run failed: it is a
\* TimeoutError naming the failed step and its configured threshold when the
\* last attempt timed out, and otherwise a ProviderError that carries the
\* backend's error unchanged and nothing that identifies the step.
C10_ErrorKinds ==
    outcome.kind = "Err" =>
        LET e == outcome.error
            c == calls[Len(calls)]
        IN  /\ c.step = index
            /\ \/ /\ c.result.kind = "Abandoned"
                  /\ e = [variant      |-> "TimeoutError",
                          step_name    |-> CurrentStep.name,
                          timeout_secs |-> CurrentStep.timeout.val]
               \/ /\ c.result.kind = "Err"
                  /\ e = [variant |-> "ProviderError", source |-> c.result.error]

C10_Witness ==
    /\ outcome.kind = "Err"
    /\ index = 1
    /\ outcome.error.variant = "ProviderError"
    /\ outcome.error.source = "AuthenticationError"

\* a backend call that never returns is awaited on a step without a timeout
HungNoTimeout ==
    /\ pc = "await"
    /\ calls[Len(calls)].result.kind = "Hung"
    /\ ~CurrentStep.timeout.some

\* C11: execute eventually ends (with a WorkflowResult or an error; a debug
\* build can also end it by the overflow panic) unless a backend call that
\* never returns is awaited on a step without a timeout; and from the moment
\* such a call is awaited execute stays waiting on it forever, with no outcome,
\* whatever the step's retry budget.
C11_Termination ==
    /\ (<>(pc = "done")) \/ (<>HungNoTimeout)
    /\ [](HungNoTimeout => [](pc = "await" /\ outcome.kind = "None"))

C11_Witness ==
    /\ HungNoTimeout
    /\ Budget(CurrentStep) = 2
    /\ attempt = 1

-----------------------------------------------------------------------------
(* What a call of execute holds, recomputed from the log of its own        *)
(* backend calls alone.                                                    *)

\* the calls of a run whose response was recorded; a response on which
\* record_step_result panicked was not
RecordedCalls(r) ==
    LET oks == SelectSeq(r.calls, LAMBDA c : c.result.kind = "Ok")
    IN  IF r.outcome.kind = "Panic" THEN SubSeq(oks, 1, Len(oks) - 1) ELSE oks

\* the failed attempts a run made for the step with 0-based index j
FailuresOf(r, j) ==
    Cardinality({i \in DOMAIN r.calls :
                    /\ r.calls[i].step = j
                    /\ r.calls[i].result.kind \in {"Err", "Abandoned"}})

\* the attempts after the first a run began for the step with 0-based index j
RetriesOf(r, j) ==
    Cardinality({i \in DOMAIN r.calls :
                    r.calls[i].step = j /\ r.calls[i].attempt > 0})

\* the Step Results of a run less their durations
ResultsOf(r) ==
    [i \in DOMAIN r.step_results |->
        [step_name   |-> r.step_results[i].step_name,
         index       |-> r.step_results[i].index,
         status      |-> r.step_results[i].status,
         output      |-> r.step_results[i].output,
         token_usage |-> r.step_results[i].token_usage,
         retry_count |-> r.step_results[i].retry_count]]

\* the Step Results the recorded responses of a run alone give
ExpectedResults(r) ==
    LET rc == RecordedCalls(r)
    IN  [i \in DOMAIN rc |->
            LET k == FailuresOf(r, rc[i].step)
            IN  [step_name   |-> workflow.steps[rc[i].step + 1].name,
                 index       |-> rc[i].step,
                 status      |-> IF k > 0
                                 THEN [variant |-> "Retried", attempts |-> k]
                                 ELSE [variant |-> "Success"],
                 output      |-> Some(rc[i].result.content),
                 token_usage |-> rc[i].result.token_usage,
                 retry_count |-> k]]

\* the token total the recorded responses of a run alone give (modulo 2^32)
RECURSIVE SumUsage(_)
SumUsage(rc) ==
    IF rc = <<>> THEN Zero
    ELSE WrapU32(AddExact(AddExact(rc[1].result.token_usage.input_tokens,
                                   rc[1].result.token_usage.output_tokens),
                          SumUsage(Tail(rc))))

RunIsolated(r) ==
    /\ ResultsOf(r) = ExpectedResults(r)
    /\ total_tokens(r.context) = SumUsage(RecordedCalls(r))
    /\ \A j \in 0..(NumSteps - 1) :
          get_retry_count(r.context, workflow.steps[j + 1].name) = RetriesOf(r, j)
    /\ DOMAIN r.context.retry_counts \subseteq
          {workflow.steps[j + 1].name : j \in 0..(NumSteps - 1)}

\* C12: with two calls of execute interleaved in any way, the Step Results,
\* the retry counts and the token total of each call are those its own backend
\* calls give: what a run executed alone computes from the same responses.
C12_Isolation == RunIsolated(ThisRun) /\ RunIsolated(other)

C12_Witness ==
    /\ pc = "await"
    /\ other.pc = "await"
    /\ Len(step_results) = 1
    /\ Len(other.step_results) = 1
    /\ total_tokens(context) # total_tokens(other.context)
    /\ step_results[1].output # other.step_results[1].output

\* the call of execute under way is the second one on the executor
SecondRun == other.pc = "done" /\ pc # "idle"

\* C13: no step of execute changes the executor's workflow or initial input;
\* and a second call of execute on the same executor starts with the first
\* step and the same initial input, its context, Step Results and token total
\* hold only what its own backend calls give, and when it returns a result it
\* has run every step.
C13_FreshRun ==
    /\ [][workflow' = workflow /\ initial_input' = initial_input]_vars
    /\ [](SecondRun =>
            /\ RunIsolated(ThisRun)
            /\ Len(context.step_outputs) = Len(RecordedCalls(ThisRun))
            /\ calls # <<>> =>
                  /\ calls[1].step = 0
                  /\ calls[1].user_input =
                        IF initial_input.some THEN initial_input.val ELSE ""
            /\ outcome.kind = "Ok" =>
                  /\ Len(outcome.result.steps) = NumSteps
                  /\ outcome.result.steps = step_results
                  /\ outcome.result.total_tokens_used = SumUsage(RecordedCalls(ThisRun)))

C13_Witness ==
    /\ SecondRun
    /\ outcome.kind = "Ok"
    /\ other.outcome.kind = "Ok"
    /\ get_retry_count(other.context, "A") = 1
    /\ get_retry_count(context, "A") = 0
    /\ total_tokens(other.context) = <<0, 150>>
    /\ total_tokens(context) = <<0, 150>>

\* C14: every Step Output the engine has recorded, of an Anthropic step as of
\* an OpenAI step, has non-empty content: a backend call that generated no
\* text reaches the engine as an error.
C14_NonEmptyContent ==
    \A i \in DOMAIN context.step_outputs : context.step_outputs[i].content # ""

-----------------------------------------------------------------------------
(* Properties of the configuration.                                        *)

\* a raw step is valid: name and prompt not blank, prompt within the limit,
\* provider and tier among the accepted spellings in any letter case
ValidStepDto(st) ==
    /\ \E i \in DOMAIN st.name : st.name[i] \notin Whitespace
    /\ \E i \in DOMAIN st.system_prompt : st.system_prompt[i] \notin Whitespace
    /\ Len(st.system_prompt) <= 10000
    /\ to_lowercase(st.provider) \in {anthropic, openai}
    /\ to_lowercase(st.model_tier) \in {heavy, medium, light}

PairwiseDistinctNames(steps) ==
    \A i, j \in DOMAIN steps : i # j => steps[i].name # steps[j].name

\* C15: the Workflow an executor is built from has a non-blank name, at least
\* one step and pairwise distinct step names; the conversion of a raw
\* definition fails, with a validation error, iff the name is blank, the step
\* list is empty, a step is invalid or two steps share a name.
C15_ValidWorkflow ==
    /\ pc = "idle" =>
          /\ \E i \in DOMAIN workflow.name : workflow.name[i] \notin Whitespace
          /\ Len(workflow.steps) >= 1
          /\ PairwiseDistinctNames(workflow.steps)
    /\ config.result.some =>
          LET dto == config.dto.val
              res == config.result.val
              bad == \/ \A i \in DOMAIN dto.workflow.name : dto.workflow.name[i] \in Whitespace
                     \/ Len(dto.steps) = 0
                     \/ \E i \in DOMAIN dto.steps : ~ValidStepDto(dto.steps[i])
                     \/ ~PairwiseDistinctNames(dto.steps)
          IN  /\ res.ok <=> ~bad
              /\ ~res.ok => res.error.variant = "Validation"

C15_Witness ==
    /\ config.result.some
    /\ ~config.result.val.ok
    /\ config.result.val.error.what = "duplicate step name"
    /\ config.dto.val.steps[1] # config.dto.val.steps[2]

\* two strings are equal up to the case of their letters
SameIgnoringCase(a, b) ==
    /\ Len(a) = Len(b)
    /\ \A i \in DOMAIN a :
          \/ a[i] = b[i]
          \/ \E k \in DOMAIN UpperCase :
                {a[i], b[i]} = {UpperCase[k], LowerCase[k]}

\* C20: a raw definition that converts to a Workflow comes back from the
\* reverse conversion with the same workflow name, description and version and
\* the same steps in the same order, each with its name, system prompt, timeout
\* and retry count; provider and tier come back in lowercase, equal to the
\* input up to letter case.
C20_RoundTrip ==
    config.back.some =>
        LET dto  == config.dto.val
            back == config.back.val
        IN  /\ back.workflow = dto.workflow
            /\ Len(back.steps) = Len(dto.steps)
            /\ \A i \in DOMAIN dto.steps :
                  /\ back.steps[i].name = dto.steps[i].name
                  /\ back.steps[i].system_prompt = dto.steps[i].system_prompt
                  /\ back.steps[i].timeout = dto.steps[i].timeout
                  /\ back.steps[i].retry_count = dto.steps[i].retry_count
                  /\ back.steps[i].provider \in {anthropic, openai}
                  /\ SameIgnoringCase(back.steps[i].provider, dto.steps[i].provider)
                  /\ back.steps[i].model_tier \in {heavy, medium, light}
                  /\ SameIgnoringCase(back.steps[i].model_tier, dto.steps[i].model_tier)

C20_Witness ==
    /\ config.back.some
    /\ Len(config.dto.val.steps) = 2
    /\ config.dto.val.steps[1].provider = <<"A", "N", "T", "H", "R", "O", "P", "I", "C">>
    /\ config.dto.val.steps[2].model_tier = <<"M", "e", "d", "i", "u", "m">>
    /\ config.dto.val.workflow.version.some
    /\ config.back.val # config.dto.val

-----------------------------------------------------------------------------
(* Properties of the result model.                                         *)

\* C16: on any WorkflowResult is_success() returns true iff the status is
\* Success (false for Failed and every PartialSuccess), and completed_steps()
\* returns the number of Step Results with status Success or Retried, those
\* with status Failed or Skipped not being counted.
C16_ResultQueries ==
    (pc = "result" /\ returned.some) =>
        LET r == outcome.result
            v == returned.val
        IN  /\ v.call = "is_success" =>
                  /\ v.val = TRUE <=> r.status = [variant |-> "Success"]
                  /\ r.status.variant \in {"Failed", "PartialSuccess"} => v.val = FALSE
            /\ v.call = "completed_steps" =>
                  v.val = Cardinality({i \in DOMAIN r.steps :
                              \/ r.steps[i].status = [variant |-> "Success"]
                              \/ r.steps[i].status.variant = "Retried"})
                          /\ v.val = Len(r.steps)
                                - Cardinality({i \in DOMAIN r.steps :
                                      r.steps[i].status.variant \in {"Failed", "Skipped"}})

C16_Witness ==
    /\ pc = "result"
    /\ returned.some
    /\ returned.val.call = "completed_steps"
    /\ returned.val.val = 2
    /\ outcome.result.status.variant = "PartialSuccess"
    /\ Len(outcome.result.steps) = 3
    /\ outcome.result.steps[1].status.variant = "Retried"
    /\ outcome.result.steps[2].status.variant = "Skipped"
    /\ outcome.result.steps[3].status.variant = "Success"

-----------------------------------------------------------------------------
(* Properties of the execution context, over every context the operations  *)
(* reach and every operation that can be applied to it next.               *)

\* the step names asked for: those recorded and one that never is
AskedNames == CtxNames \cup {"Z"}

\* the context after recording the output, when the record does not panic
Recorded(output) == record_step_result(context, output, overflow_checks)

\* C17 as stated: after an output is recorded the context holds a single
\* output for its step name, and get_step_output(name) returns the output just
\* recorded, also when the name had an output before.
C17_Overwrite ==
    \A output \in CtxOutputs :
        ~Recorded(output).panic =>
            LET ctx == Recorded(output).ctx
            IN  /\ Cardinality({i \in DOMAIN ctx.step_outputs :
                        ctx.step_outputs[i].step_name = output.step_name}) = 1
                /\ get_step_output(ctx, output.step_name) = Some(output)

\* C17 as amended: recording appends: every output recorded earlier stays, so a
\* name can have several outputs; get_step_output(name) returns the first
\* output recorded under the name and goes on returning it whatever is
\* recorded later, and returns the new output only when the name had none.
C17_FirstOutputKept ==
    \A output \in CtxOutputs :
        LET rec == Recorded(output)
        IN  rec.panic \/
            LET ctx == rec.ctx
            IN  /\ ctx.step_outputs = context.step_outputs \o <<output>>
                /\ \A n \in AskedNames :
                      IF \E i \in DOMAIN context.step_outputs :
                            context.step_outputs[i].step_name = n
                      THEN /\ get_step_output(context, n).some
                           /\ get_step_output(ctx, n) = get_step_output(context, n)
                      ELSE get_step_output(ctx, n) =
                              IF n = output.step_name THEN Some(output) ELSE None

C17_Witness ==
    /\ pc = "ctx"
    /\ Len(context.step_outputs) = 2
    /\ context.step_outputs[1].step_name = "A"
    /\ context.step_outputs[2].step_name = "A"
    /\ context.step_outputs[1].execution_time # context.step_outputs[2].execution_time
    /\ get_step_output(context, "A") = Some(context.step_outputs[1])

\* C18: get_last_output() is None as long as nothing has been recorded and
\* after a record is the output passed to it, whatever was recorded before;
\* get_step_output(name) is None for a name under which nothing has been
\* recorded and an output of that name otherwise, in whatever order the names
\* were recorded.
C18_LastOutput ==
    /\ context.steps_executed = <<>> => get_last_output(context) = None
    /\ \A output \in CtxOutputs :
          LET rec == Recorded(output)
          IN  rec.panic \/ get_last_output(rec.ctx) = Some(output)
    /\ \A n \in AskedNames :
          IF \E i \in DOMAIN context.steps_executed : context.steps_executed[i] = n
          THEN /\ get_step_output(context, n).some
               /\ get_step_output(context, n).val.step_name = n
          ELSE get_step_output(context, n) = None

C18_Witness ==
    /\ pc = "ctx"
    /\ Len(context.step_outputs) = 2
    /\ context.step_outputs[1].step_name = "B"
    /\ context.step_outputs[2].step_name = "A"
    /\ get_last_output(context) = Some(context.step_outputs[2])
    /\ get_step_output(context, "B") = Some(context.step_outputs[1])
    /\ get_step_output(context, "Z") = None

\* the context less its retry counters
WithoutRetryCounts(ctx) == [ctx EXCEPT !.retry_counts = <<>>]

\* C19: get_retry_count is 0 for every name at the start; a call of
\* increment_retry(name) raises the count of that name by one and changes
\* nothing else of the context (no other counter, not the history, the
\* outputs, the token total, the durations or the in-flight marker), and no
\* other operation changes a count: the count of a name is the number of
\* increment_retry calls made for it.
C19_RetryCounters ==
    /\ \A n \in AskedNames : get_retry_count(context, n) = 0
    /\ [][IF CtxIncrementRetry
           THEN /\ \E n \in CtxNames :
                     /\ get_retry_count(context', n) = get_retry_count(context, n) + 1
                     /\ \A m \in AskedNames \ {n} :
                           get_retry_count(context', m) = get_retry_count(context, m)
                /\ WithoutRetryCounts(context') = WithoutRetryCounts(context)
           ELSE \A n \in AskedNames :
                     get_retry_count(context', n) = get_retry_count(context, n)]_vars

C19_Witness ==
    /\ pc = "ctx"
    /\ get_retry_count(context, "A") = 2
    /\ get_retry_count(context, "B") = 1
    /\ get_retry_count(context, "Z") = 0
    /\ context.current_step = Some("B")
    /\ Len(context.step_outputs) = 1

-----------------------------------------------------------------------------
(* The retry loop and the timer, attempt by attempt.                       *)

\* the backend calls of step j that returned a response
OkCalls(j) == {i \in CallsOf(j) : calls[i].result.kind = "Ok"}
\* the positions of the outputs recorded in the context under a step name
OutputsOf(name) ==
    {p \in DOMAIN context.step_outputs : context.step_outputs[p].step_name = name}
\* the run was aborted by the overflow panic while recording the answer of
\* step j
PanickedOn(j) == outcome.kind = "Panic" /\ index = j

\* C21: a step has at most one backend call that returned a response, and that
\* call is the last one made for the step whatever retry budget is left; the
\* context holds exactly one Step Output under the step's name once such a
\* call exists (none before, and none when recording it aborted the run by
\* the overflow panic), and there is exactly one Step Result for the step.
C21_ReturnOnSuccess ==
    \A j \in 0..(NumSteps - 1) :
        LET name == workflow.steps[j + 1].name
            done == OkCalls(j) # {} /\ ~PanickedOn(j)
        IN  /\ Cardinality(OkCalls(j)) <= 1
            /\ \A i \in OkCalls(j) : \A k \in CallsOf(j) : k <= i
            /\ Cardinality(OutputsOf(name)) = IF done THEN 1 ELSE 0
            /\ Cardinality({p \in DOMAIN step_results : step_results[p].index = j})
                  = IF done THEN 1 ELSE 0

C21_Witness ==
    /\ outcome.kind = "Ok"
    /\ NumSteps = 2
    /\ Budget(workflow.steps[1]) = 1
    /\ CallsOf(0) = {1}
    /\ Len(calls) = 2
    /\ Cardinality(OutputsOf("A")) = 1

\* the error that the failure of backend call i stands for
ErrorOfCall(i) ==
    LET step == workflow.steps[calls[i].step + 1]
    IN  IF calls[i].result.kind = "Abandoned"
        THEN [variant      |-> "TimeoutError",
              step_name    |-> step.name,
              timeout_secs |-> step.timeout.val]
        ELSE [variant |-> "ProviderError", source |-> calls[i].result.error]

\* C22: the error execute returns is the error of the last attempt of the step
\* that exhausted its budget, whatever the earlier attempts of that step
\* failed with: the last backend call of the run is that step's attempt number
\* R, every attempt of the step failed, and the error is the one of that call.
C22_LastError ==
    outcome.kind = "Err" =>
        LET last == Len(calls)
        IN  /\ calls[last].step = index
            /\ calls[last].attempt = Budget(CurrentStep)
            /\ \A i \in CallsOf(index) : FailedCall(i)
            /\ outcome.error = ErrorOfCall(last)
            /\ last_error = Some(ErrorOfCall(last))

C22_Witness ==
    /\ outcome.kind = "Err"
    /\ Cardinality(CallsOf(index)) = 2
    /\ calls[Len(calls) - 1].step = index
    /\ calls[Len(calls) - 1].result.kind = "Abandoned"
    /\ calls[Len(calls)].result.kind = "Err"
    /\ outcome.error.variant = "ProviderError"

\* C23: while the backend call of attempt k of a step is awaited, the step's
\* retry counter in the context reads exactly k (0 for the first attempt, which
\* does not increment it); the counter goes up only on the way into an attempt
\* k > 0, so it still reads k while the engine sleeps after that attempt and
\* when the step's last attempt has failed, and k - 1 between the end of the
\* sleep and the invocation; the counter of a step not yet begun reads 0.
C23_CounterAtInvocation ==
    /\ pc = "await" =>
          /\ calls[Len(calls)].step = index
          /\ calls[Len(calls)].attempt = attempt
          /\ get_retry_count(context, CurrentStep.name) = attempt
    /\ (pc = "sleep" \/ (pc = "done" /\ outcome.kind \in {"Err", "Panic"})) =>
          get_retry_count(context, CurrentStep.name) = attempt
    /\ pc = "attempt" =>
          get_retry_count(context, CurrentStep.name)
              = IF attempt = 0 THEN 0 ELSE attempt - 1
    /\ \A j \in 1..NumSteps :
          CallsOf(j - 1) = {} => get_retry_count(context, workflow.steps[j].name) = 0

C23_Witness ==
    /\ pc = "await"
    /\ CallPending
    /\ attempt = 2
    /\ get_retry_count(context, CurrentStep.name) = 2

\* C24: a failed attempt is followed by the backoff sleep iff its number is
\* below the step's retry budget R, and otherwise ends the run at once; the
\* sleep lasts BackoffSecs (one second) and the next attempt begins only when
\* it is over; the attempt number goes up by one per sleep and by nothing
\* else, so a step that exhausts its budget has slept exactly R times.
C24_Backoff ==
    /\ [](pc = "sleep" =>
            /\ calls[Len(calls)].step = index
            /\ FailedCall(Len(calls))
            /\ calls[Len(calls)].attempt = attempt
            /\ attempt < Budget(CurrentStep))
    /\ []((pc = "done" /\ outcome.kind = "Err") => attempt = Budget(CurrentStep))
    /\ [][/\ (pc = "await" /\ FailedCall(Len(calls))') =>
               IF attempt < Budget(CurrentStep)
               THEN pc' = "sleep" /\ attempt' = attempt
               ELSE pc' = "done" /\ attempt' = attempt
          /\ pc = "sleep" =>
               /\ pc' = "attempt"
               /\ attempt' = attempt + 1
               /\ now' = now + 1
               /\ calls' = calls
          /\ attempt' # attempt => (pc = "sleep" \/ (pc = "loop" /\ attempt' = 0))
          /\ (pc' = "sleep" /\ pc # "sleep") => pc = "await"
          /\ (pc' = "attempt" /\ attempt' > 0) => pc = "sleep"
        ]_vars

C24_Witness ==
    /\ pc = "done"
    /\ outcome.kind = "Err"
    /\ Budget(CurrentStep) = 2
    /\ attempt = 2
    /\ Cardinality(CallsOf(index)) = 3
    /\ now >= 2 * BackoffSecs

\* the last backend call made was given up at its timer while the step had
\* retries left
TimedOutWithRetriesLeft ==
    /\ calls # <<>>
    /\ calls[Len(calls)].result.kind = "Abandoned"
    /\ calls[Len(calls)].attempt < Budget(workflow.steps[calls[Len(calls)].step + 1])

\* C25 as stated: when an attempt times out and the step has retries left, the
\* new attempt begins immediately: the engine is on its way into the next
\* attempt at the very time the timer elapsed, and is never found waiting.
C25_ImmediateRetry ==
    TimedOutWithRetriesLeft =>
        /\ pc = "attempt"
        /\ now = step_start + CurrentStep.timeout.val

\* C25 as amended: a timeout ends the wait on one attempt and not the run.
\* When an attempt times out and the step has retries left, no outcome is
\* produced, the TimeoutError is kept as the attempt's failure cause, and the
\* engine first sleeps the fixed backoff: it is either in that sleep at the
\* time the timer elapsed, or on its way into the next attempt of the same
\* step BackoffSecs later; the call that follows a timed-out call in the run
\* is the next attempt of the same step.
C25_RetryAfterTimeout ==
    /\ TimedOutWithRetriesLeft =>
          LET c == calls[Len(calls)]
              T == CurrentStep.timeout.val
          IN  /\ c.step = index
              /\ outcome.kind = "None"
              /\ last_error = Some(ErrorOfCall(Len(calls)))
              /\ \/ /\ pc = "sleep"
                    /\ attempt = c.attempt
                    /\ now = step_start + T
                 \/ /\ pc = "attempt"
                    /\ attempt = c.attempt + 1
                    /\ now = step_start + T + BackoffSecs
    /\ \A i \in DOMAIN calls :
          (calls[i].result.kind = "Abandoned" /\ i < Len(calls)) =>
              /\ calls[i + 1].step = calls[i].step
              /\ calls[i + 1].attempt = calls[i].attempt + 1

C25_Witness ==
    /\ TimedOutWithRetriesLeft
    /\ pc = "attempt"
    /\ attempt = 1
    /\ now = step_start + CurrentStep.timeout.val + BackoffSecs
    /\ last_error.val.variant = "TimeoutError"

\* backend call i has not returned to the engine and has not been given up
Unfinished(i) == calls[i].result.kind \in {"Pending", "Hung"}

\* C26: at any time at most one backend call of the run is unfinished (neither
\* returned nor given up at its timer), it is the last one made and the one
\* the engine is awaiting; a call made after another is either the next
\* attempt of the same step, made after the earlier one failed (backend error
\* or timeout), or the first attempt of the next step, made after the earlier
\* one returned a response.
C26_OneAtATime ==
    /\ \A i \in DOMAIN calls : Unfinished(i) => (i = Len(calls) /\ pc = "await")
    /\ pc = "await" =>
          /\ calls # <<>>
          /\ calls[Len(calls)].step = index
          /\ calls[Len(calls)].attempt = attempt
    /\ \A i \in 1..(Len(calls) - 1) :
          IF calls[i + 1].step = calls[i].step
          THEN /\ FailedCall(i)
               /\ calls[i + 1].attempt = calls[i].attempt + 1
          ELSE /\ calls[i].result.kind = "Ok"
               /\ calls[i + 1].step = calls[i].step + 1
               /\ calls[i + 1].attempt = 0

C26_Witness ==
    /\ pc = "await"
    /\ Len(calls) = 3
    /\ calls[1].result.kind = "Ok"
    /\ calls[2].step = 1
    /\ calls[2].result.kind = "Abandoned"
    /\ calls[3].step = 1
    /\ Unfinished(3)

\* the names of the first n steps of the definition, in definition order
NamesUpTo(n) == [p \in 1..n |-> workflow.steps[p].name]

\* C27: a backend call for step i is made only after every step before i has
\* had a call that returned a response; from the first invocation for step i
\* until the step ends, the execution history of the context and the names of
\* its recorded Step Outputs are exactly the names of steps 0..i-1 in
\* definition order, the output of step i-1 holding the content that its
\* successful call returned.
C27_StepOrder ==
    /\ \A i \in DOMAIN calls :
          \A j \in 0..(calls[i].step - 1) :
              \E k \in 1..(i - 1) : calls[k].step = j /\ calls[k].result.kind = "Ok"
    /\ pc \in {"attempt", "await", "sleep"} =>
          /\ context.steps_executed = NamesUpTo(index)
          /\ [p \in DOMAIN context.step_outputs |-> context.step_outputs[p].step_name]
                = NamesUpTo(index)
          /\ \A j \in 0..(index - 1) :
                \A k \in OkCalls(j) :
                    context.step_outputs[j + 1].content = calls[k].result.content

C27_Witness ==
    /\ pc = "await"
    /\ CallPending
    /\ index = 2
    /\ attempt = 0
    /\ context.steps_executed = <<"A", "B">>
    /\ Len(context.step_outputs) = 2

\* C28: an attempt ends as its backend call ended.  A call that returned a
\* response, timer or not, gives the step's Step Result with that content and
\* usage and no error (unless recording it aborts the run by the overflow
\* panic); a call that returned an error gives ProviderError carrying that
\* error, never a TimeoutError; a call is given up, and a TimeoutError exists,
\* only for a step that declares a timeout.
C28_BackendOutcome ==
    /\ \A i \in DOMAIN calls :
          calls[i].result.kind = "Abandoned" =>
              workflow.steps[calls[i].step + 1].timeout.some
    /\ (last_error.some /\ last_error.val.variant = "TimeoutError") =>
          \E i \in DOMAIN calls :
              /\ calls[i].result.kind = "Abandoned"
              /\ last_error.val = ErrorOfCall(i)
    /\ (outcome.kind = "Err" /\ outcome.error.variant = "TimeoutError") =>
          /\ CurrentStep.timeout.some
          /\ calls[Len(calls)].result.kind = "Abandoned"
    /\ (calls # <<>> /\ calls[Len(calls)].result.kind = "Err") =>
          /\ last_error = Some([variant |-> "ProviderError",
                                source  |-> calls[Len(calls)].result.error])
          /\ pc = "done" => outcome = [kind |-> "Err", error |-> last_error.val]
    /\ \A i \in DOMAIN calls :
          (calls[i].result.kind = "Ok" /\ ~PanickedOn(calls[i].step)) =>
              LET r == step_results[calls[i].step + 1]
              IN  /\ r.output = Some(calls[i].result.content)
                  /\ r.token_usage = calls[i].result.token_usage
                  /\ r.status.variant \in {"Success", "Retried"}
                  /\ r.error = None

C28_Witness ==
    /\ outcome.kind = "Err"
    /\ CurrentStep.timeout.some
    /\ calls[Len(calls)].result.kind = "Err"
    /\ outcome.error.variant = "ProviderError"
    /\ Len(step_results) = 1
    /\ workflow.steps[1].timeout.some

\* C29: what follows a failed attempt depends on its number and the step's
\* retry budget R alone, not on the failure (a backend error of any kind or a
\* timeout): below R the run goes on, without an outcome, to the next attempt
\* of the same step; at R the failed call is the last of the run and execute
\* has returned its error, a backend error as ProviderError carrying the
\* backend's error unchanged.
C29_RetryAnyFailure ==
    \A i \in DOMAIN calls :
        FailedCall(i) =>
            IF calls[i].attempt < Budget(workflow.steps[calls[i].step + 1])
            THEN IF i < Len(calls)
                 THEN /\ calls[i + 1].step = calls[i].step
                      /\ calls[i + 1].attempt = calls[i].attempt + 1
                 ELSE /\ pc \in {"sleep", "attempt"}
                      /\ outcome.kind = "None"
            ELSE /\ i = Len(calls)
                 /\ pc = "done"
                 /\ outcome = [kind |-> "Err", error |-> ErrorOfCall(i)]

C29_Witness ==
    /\ outcome.kind = "Err"
    /\ Len(calls) = 3
    /\ calls[2].step = 1
    /\ calls[2].result.kind = "Err"
    /\ calls[2].result.error = "AuthenticationError"
    /\ calls[3].step = 1
    /\ calls[3].result.kind = "Err"
    /\ calls[3].result.error = "CliNotFound"
    /\ outcome.error = [variant |-> "ProviderError", source |-> "CliNotFound"]

\* a call given up earlier ends in this step
LateEnd ==
    \E i \in DOMAIN calls :
        /\ calls[i].result.kind = "Abandoned"
        /\ i \in DOMAIN calls'
        /\ calls'[i].result # calls[i].result

\* C30: whatever a backend call given up at its timer does later, and
\* whenever, the run is not touched by it: the step in which it ends changes
\* nothing but the backend's own record, and at all times the outputs in the
\* context, the Step Results, the input handed to the next step and the
\* result returned are those of the calls that returned to the engine while it
\* was waiting on them, in order; a call that was given up contributes none.
C30_AbandonedIgnored ==
    /\ [](LET rc == RecordedCalls(ThisRun)
          IN  /\ Len(context.step_outputs) = Len(rc)
              /\ Len(step_results) = Len(rc)
              /\ \A p \in DOMAIN rc :
                    /\ context.step_outputs[p].step_name
                          = workflow.steps[rc[p].step + 1].name
                    /\ context.step_outputs[p].content = rc[p].result.content
                    /\ context.step_outputs[p].token_usage = rc[p].result.token_usage
                    /\ step_results[p].output = Some(rc[p].result.content)
                    /\ step_results[p].token_usage = rc[p].result.token_usage
              /\ total_tokens(context) = SumUsage(rc)
              /\ pc # "idle" =>
                    current_input = IF rc = <<>>
                                    THEN (IF initial_input.some THEN initial_input.val ELSE "")
                                    ELSE rc[Len(rc)].result.content
              /\ outcome.kind = "Ok" => outcome.result.steps = step_results
              /\ \A i \in DOMAIN calls :
                    calls[i].result.kind = "Abandoned" =>
                        \A p \in DOMAIN step_results :
                            step_results[p].index = calls[i].step =>
                                \E k \in (i + 1)..Len(calls) :
                                    /\ calls[k].step = calls[i].step
                                    /\ calls[k].result.kind = "Ok")
    /\ [][LateEnd => UNCHANGED <<pc, index, attempt, last_error, current_input,
                                 context, step_results, now, start_time, step_start,
                                 outcome>>]_vars

C30_Witness ==
    /\ outcome.kind = "Ok"
    /\ calls[1].result.kind = "Abandoned"
    /\ ~StillRunning(1)
    /\ calls[1].result.late.ok
    /\ calls[1].result.late.response.content = "out-A"
    /\ calls[2].result.kind = "Ok"
    /\ step_results[1].output = Some("")
    /\ Len(context.step_outputs) = NumSteps

-----------------------------------------------------------------------------
(* The effects of a record, the token arithmetic and what a run leaves in  *)
(* its context and its result.                                             *)

\* C31: whatever the context holds and whatever step is marked in flight,
\* recording any output completes and gives a context whose history is the old
\* one with the output's step name appended, whose outputs are the old ones
\* with the output appended, whose token counter is the old counter plus the
\* output's token total, whose duration list is the old one with the output's
\* duration appended, whose in-flight marker is cleared and whose retry
\* counters are the old ones.
C31_RecordEffects ==
    \A output \in CtxOutputs :
        LET rec == Recorded(output)
        IN  /\ ~rec.panic
            /\ rec.ctx.steps_executed = Append(context.steps_executed, output.step_name)
            /\ rec.ctx.step_outputs = Append(context.step_outputs, output)
            /\ rec.ctx.total_tokens_used =
                  AddExact(context.total_tokens_used,
                           AddExact(output.token_usage.input_tokens,
                                    output.token_usage.output_tokens))
            /\ rec.ctx.execution_times =
                  Append(context.execution_times, output.execution_time)
            /\ rec.ctx.current_step = None
            /\ rec.ctx.retry_counts = context.retry_counts

\* C32: every Step Result of a run, and of the WorkflowResult it returns, has
\* a success status (Success or Retried), carries an output text and no error;
\* the output is the content returned by the one backend call of its step
\* that returned a response.
C32_OutputIffSuccess ==
    [](/\ \A p \in DOMAIN step_results :
             LET r == step_results[p]
             IN  /\ r.output.some <=> r.status.variant \in {"Success", "Retried"}
                 /\ r.output.some
                 /\ r.error = None
                 /\ OkCalls(r.index) # {}
                 /\ \A i \in OkCalls(r.index) : r.output.val = calls[i].result.content
       /\ outcome.kind = "Ok" =>
             /\ outcome.result.steps = step_results
             /\ outcome.result.error = None)

C32_Witness ==
    /\ outcome.kind = "Ok"
    /\ Len(outcome.result.steps) = 2
    /\ outcome.result.steps[1].status.variant = "Retried"
    /\ outcome.result.steps[1].output = Some("out-A")
    /\ outcome.result.steps[2].status.variant = "Success"

\* C33: for every pair of u32 token counts total() returns their exact
\* arithmetic sum without failing, no record fails, and the cumulative token
\* counter of the context is the exact arithmetic sum of the totals of the
\* outputs recorded, also when that sum exceeds 2^32-1.
C33_ExactTokens ==
    /\ \A usage \in CtxTokenUsages :
          LET t == Total(usage, overflow_checks)
          IN  /\ ~t.panic
              /\ t.val = AddExact(usage.input_tokens, usage.output_tokens)
    /\ outcome.kind # "Panic"
    /\ \A output \in CtxOutputs : ~Recorded(output).panic
    /\ total_tokens(context) = SumTotals(context.step_outputs)

\* the arithmetic (unbounded) sum of input + output tokens over Step Results
RECURSIVE SumStepTokens(_)
SumStepTokens(steps) ==
    IF steps = <<>> THEN Zero
    ELSE AddExact(AddExact(steps[1].token_usage.input_tokens,
                           steps[1].token_usage.output_tokens),
                  SumStepTokens(Tail(steps)))

\* C34: in every WorkflowResult execute returns, total_tokens_used is the
\* arithmetic sum of input + output tokens over its Step Results, each Step
\* Result carrying the usage of its step's successful call; failed and
\* timed-out attempts add nothing.
C34_ResultTokens ==
    outcome.kind = "Ok" =>
        /\ outcome.result.total_tokens_used = SumStepTokens(outcome.result.steps)
        /\ \A p \in DOMAIN outcome.result.steps :
              \A i \in OkCalls(outcome.result.steps[p].index) :
                  outcome.result.steps[p].token_usage = calls[i].result.token_usage

\* the step is being worked on: between its start and its success or the
\* failure of the run
InRetryCycle == pc \in {"attempt", "await", "sleep"}

\* C35: from the start of a step until it succeeds or the run fails, the
\* in-flight marker of the context names the step; a failed attempt (backend
\* error or timeout) leaves the whole context as it is; and the only change
\* made to the context between the start of a step and its success is that
\* the way into an attempt k > 0 adds one to that step's retry counter, the
\* history, the outputs, the token counter, the duration list, the marker and
\* the other steps' counters staying as they are.
C35_FailureFrame ==
    /\ []((InRetryCycle \/ (pc = "done" /\ outcome.kind = "Err")) =>
            context.current_step = Some(CurrentStep.name))
    /\ [][/\ (pc = "await" /\ FailedCall(Len(calls))') => context' = context
          /\ (InRetryCycle /\ pc' # "loop" /\ outcome'.kind # "Panic") =>
                IF pc = "attempt" /\ attempt > 0
                THEN /\ [context' EXCEPT !.retry_counts = context.retry_counts] = context
                     /\ DOMAIN context'.retry_counts
                           = DOMAIN context.retry_counts \cup {CurrentStep.name}
                     /\ \A n \in DOMAIN context'.retry_counts :
                           context'.retry_counts[n] =
                               get_retry_count(context, n)
                                   + (IF n = CurrentStep.name THEN 1 ELSE 0)
                ELSE context' = context
        ]_vars

C35_Witness ==
    /\ pc = "await"
    /\ index = 1
    /\ attempt = 1
    /\ calls[Len(calls)  - 1].result.kind = "Abandoned"
    /\ context.current_step = Some("B")
    /\ context.steps_executed = <<"A">>
    /\ context.retry_counts = [n \in {"B"} |-> 1]

\* C36: at every point of a run, for every step of the definition, the retry
\* counter of the context is at most the step's configured retry budget (and
\* 0, with no counter stored, for a step without a retry count), the backend
\* has been invoked for the step at most budget + 1 times, and every
\* invocation has an attempt number within the budget.
C36_WithinBudget ==
    [](\A j \in 0..(NumSteps - 1) :
            LET step == workflow.steps[j + 1]
            IN  /\ get_retry_count(context, step.name) <= Budget(step)
                /\ ~step.retry_count.some => step.name \notin DOMAIN context.retry_counts
                /\ Cardinality(CallsOf(j)) <= Budget(step) + 1
                /\ \A i \in CallsOf(j) : calls[i].attempt <= Budget(step))

C36_Witness ==
    /\ pc = "await"
    /\ index = 1
    /\ ~workflow.steps[1].retry_count.some
    /\ Budget(CurrentStep) = 1
    /\ get_retry_count(context, CurrentStep.name) = 1
    /\ Cardinality(CallsOf(1)) = 2
    /\ get_retry_count(context, workflow.steps[1].name) = 0

\* C37: all backend calls made for one step carry the same user_input,
\* however the earlier attempts failed; that input is the supplied initial
\* input ("" when none was supplied) for the first step and, for a later
\* step, the content returned by the successful call of the step before it.
C37_SameInput ==
    [](\A i \in DOMAIN calls :
            /\ \A k \in CallsOf(calls[i].step) : calls[k].user_input = calls[i].user_input
            /\ IF calls[i].step = 0
               THEN calls[i].user_input =
                        IF initial_input.some THEN initial_input.val ELSE ""
               ELSE /\ OkCalls(calls[i].step - 1) # {}
                    /\ \A k \in OkCalls(calls[i].step - 1) :
                          calls[i].user_input = calls[k].result.content)

C37_Witness ==
    /\ Len(calls) = 3
    /\ initial_input = Some("task")
    /\ calls[1].result.kind = "Ok"
    /\ calls[1].result.content = ""
    /\ calls[2].step = 1
    /\ calls[2].result.kind = "Err"
    /\ calls[3].step = 1
    /\ calls[3].user_input = ""

\* C38: at every point of a run the history of the context is the sequence of
\* the names of the first k steps of the definition for some k <= N, no name
\* occurs in it twice, and k is also the number of outputs recorded in the
\* context and the number of Step Results accumulated.
C38_HistoryPrefix ==
    [](LET h == context.steps_executed
        IN  /\ Len(h) <= NumSteps
            /\ h = NamesUpTo(Len(h))
            /\ \A p, q \in DOMAIN h : p # q => h[p] # h[q]
            /\ Len(h) = Len(context.step_outputs)
            /\ Len(h) = Len(step_results))

C38_Witness ==
    /\ outcome.kind = "Ok"
    /\ NumSteps = 3
    /\ context.steps_executed = <<"A", "B", "C">>
    /\ Len(context.step_outputs) = 3
    /\ Len(step_results) = 3

\* the durations of a list of Step Results
DurationsOf(steps) == [p \in DOMAIN steps |-> steps[p].duration]

\* C39: the clock of the run never goes back; the duration of a Step Result
\* is the time from the invocation of its step's successful attempt to the
\* return of that attempt, the step's clock being restarted at every
\* invocation; and the total_duration of a WorkflowResult, the time from the
\* start of execute to its end, is at least the sum of the durations of its
\* Step Results.
C39_WallClock ==
    /\ [](/\ start_time <= now
          /\ step_start <= now
          /\ start_time <= step_start \/ calls = <<>>
          /\ outcome.kind = "Ok" =>
                /\ outcome.result.total_duration
                      = outcome.result.end_time - outcome.result.start_time
                /\ outcome.result.total_duration
                      >= SumNat(DurationsOf(outcome.result.steps)))
    /\ [][/\ now' >= now
          /\ Len(calls') > Len(calls) => step_start' = now'
          /\ Len(step_results') > Len(step_results) =>
                /\ pc = "await"
                /\ step_results'[Len(step_results')].duration = now' - step_start
        ]_vars

C39_Witness ==
    /\ outcome.kind = "Ok"
    /\ NumSteps = 1
    /\ Len(calls) = 2
    /\ calls[1].result.kind = "Abandoned"
    /\ outcome.result.steps[1].duration = 0
    /\ outcome.result.total_duration = 2

====
